---- MODULE Spec2Model ----
(***************************************************************************)
(* A model of dtnclient: the endpoint-identifier grammar (eid.py), the     *)
(* message classes and their MessagePack codec (messages.py) and the       *)
(* framed request/reply exchange with dtnd over a UNIX stream socket       *)
(* (client.py).                                                            *)
(*                                                                         *)
(* Python values are tagged tuples:                                        *)
(*   <<"none">>            None                                            *)
(*   <<"bool", b>>         bool                                            *)
(*   <<"int", n>>          int in -2^31..2^31-1 (also an IntEnum member,   *)
(*                         which compares and packs as its value)          *)
(*   <<"long", neg, bs>>   any other int of a magnitude below 2^64: neg    *)
(*                         its sign, bs the 8 bytes of its magnitude       *)
(*   <<"float", bs>>       float, bs the 8 bytes of its binary64           *)
(*   <<"str", cs>>         str, cs a sequence of characters: a printable   *)
(*                         ASCII character is the one-character string,    *)
(*                         the grave accent "grave", U+00E9 "e-acute", any *)
(*                         other code point n "U+n" with n in decimal      *)
(*   <<"eid", cs>>         an EID instance (a str subclass), cs its text   *)
(*   <<"bin", bs>>         bytes, bs a sequence of 0..255                  *)
(*   <<"list", vs>>        list                                            *)
(*   <<"dict", ps>>        dict, ps the sequence of <<key, value>> pairs   *)
(*                         in insertion order, key a sequence of chars     *)
(*   <<"obj", cls, ps>>    a dataclass instance of class cls with          *)
(*                         __dict__ ps                                     *)
(*   <<"opaque">>          an object MessagePack cannot encode             *)
(* The outcome of a Python call is <<"ok", value>> or                      *)
(* <<"raise", exception class, detail>>, detail a tuple of the message and *)
(* the values it reports.                                                  *)
(***************************************************************************)
EXTENDS Integers, Sequences, FiniteSets, TLC

---------------------------------------------------------------------------
(* Characters and text                                                     *)

Ascii ==
  <<
    " ", "!", "\"", "#", "$", "%", "&", "'", "(", ")", "*", "+", ",", "-", ".", "/",
    "0", "1", "2", "3", "4", "5", "6", "7", "8", "9", ":", ";", "<", "=", ">", "?",
    "@", "A", "B", "C", "D", "E", "F", "G", "H", "I", "J", "K", "L", "M", "N", "O",
    "P", "Q", "R", "S", "T", "U", "V", "W", "X", "Y", "Z", "[", "\\", "]", "^", "_",
    "grave", "a", "b", "c", "d", "e", "f", "g", "h", "i", "j", "k", "l", "m", "n", "o",
    "p", "q", "r", "s", "t", "u", "v", "w", "x", "y", "z", "{", "|", "}", "~"
  >>

AsciiSet == {Ascii[i] : i \in 1..Len(Ascii)}

\* Characters are one-character strings for printable ASCII, but for the
\* grave accent (the atom "grave"); U+00E9 is the atom "e-acute", and every
\* other code point n the atom "U+n" with n in decimal.
EAcute == "e-acute"

OrdMap == [c \in AsciiSet |-> 31 + (CHOOSE i \in 1..Len(Ascii) : Ascii[i] = c)]

\* The highest code point.
MaxCodePoint == 17 * 65536 - 1

\* chr(cp)
CharOf(cp) ==
  IF cp >= 32 /\ cp <= 126 THEN Ascii[cp - 31]
  ELSE IF cp = 233 THEN EAcute
  ELSE "U+" \o ToString(cp)

\* ord(c)
Ord(c) ==
  IF c \in AsciiSet THEN OrdMap[c]
  ELSE IF c = EAcute THEN 233
  ELSE CHOOSE cp \in 0..MaxCodePoint : CharOf(cp) = c

\* A surrogate: a code point a Python str can hold and UTF-8 cannot encode.
IsSurrogate(cp) == cp >= 55296 /\ cp <= 57343

\* The UTF-8 bytes of the code point cp.
Utf8Bytes(cp) ==
  IF cp < 128 THEN <<cp>>
  ELSE IF cp < 2048 THEN <<192 + (cp \div 64), 128 + (cp % 64)>>
  ELSE IF cp < 65536
  THEN <<224 + (cp \div 4096), 128 + ((cp \div 64) % 64), 128 + (cp % 64)>>
  ELSE <<240 + (cp \div 262144), 128 + ((cp \div 4096) % 64), 128 + ((cp \div 64) % 64),
         128 + (cp % 64)>>

\* str.encode("utf-8") of one character.
Utf8Char(c) == Utf8Bytes(Ord(c))

RECURSIVE Utf8(_)
Utf8(cs) == IF cs = <<>> THEN <<>> ELSE Utf8Char(Head(cs)) \o Utf8(Tail(cs))

\* str.isascii()
isascii(cs) == \A i \in 1..Len(cs) : Ord(cs[i]) < 128

\* str.startswith(prefix)
startswith(cs, prefix) ==
  /\ Len(cs) >= Len(prefix)
  /\ SubSeq(cs, 1, Len(prefix)) = prefix

\* sub in cs, for texts
Contains(cs, sub) ==
  \E i \in 0..(Len(cs) - Len(sub)) : SubSeq(cs, i + 1, i + Len(sub)) = sub

\* The text after the first n characters: cs[n:]
Drop(cs, n) == SubSeq(cs, n + 1, Len(cs))

\* Index of the first occurrence of character c in cs, 0 when there is none.
Find(cs, c) ==
  IF \E i \in 1..Len(cs) : cs[i] = c
  THEN CHOOSE i \in 1..Len(cs) : cs[i] = c /\ \A j \in 1..(i - 1) : cs[j] # c
  ELSE 0

\* str.split(sep): the list of the parts between the occurrences of sep.
RECURSIVE split(_, _)
split(cs, sep) ==
  LET i == Find(cs, sep)
  IN  IF i = 0 THEN <<cs>>
      ELSE <<SubSeq(cs, 1, i - 1)>> \o split(Drop(cs, i), sep)

Digits == <<"0", "1", "2", "3", "4", "5", "6", "7", "8", "9">>
DigitSet == {Digits[i] : i \in 1..10}

\* The code points of the digit zero of every decimal-digit run of Unicode:
\* int() reads the digits of each (Py_UNICODE_TODECIMAL). The runs are those
\* of Unicode 15, the database of Python 3.12 and 3.13; messages.py imports
\* typing.override, which no earlier Python has.
DecimalZeros ==
  {48, 1632, 1776, 1984, 2406, 2534, 2662, 2790, 2918, 3046, 3174, 3302, 3430, 3558,
   3664, 3792, 3872, 4160, 4240, 6112, 6160, 6470, 6608, 6784, 6800, 6992, 7088, 7232,
   7248, 42528, 43216, 43264, 43472, 43504, 43600, 44016, 65296, 66720, 68912, 69734,
   69872, 69942, 70096, 70384, 70736, 70864, 71248, 71360, 71472, 71904, 72016, 72784,
   73040, 73120, 73552, 92768, 92864, 93008, 120782, 120792, 120802, 120812, 120822, 123200,
   123632, 124144, 125264, 130032}
DecimalOf(cp) == IF \E z \in DecimalZeros : cp >= z /\ cp <= z + 9
                 THEN cp - (CHOOSE z \in DecimalZeros : cp >= z /\ cp <= z + 9)
                 ELSE -1
IsDecimal(c) == DecimalOf(Ord(c)) >= 0
DigitVal(c) == DecimalOf(Ord(c))

\* The whitespace int() skips at both ends: the ASCII whitespace of
\* Py_ISSPACE, and the code points from 128 on that are Unicode whitespace.
IntSpaces ==
  {9, 10, 11, 12, 13, 32, 133, 160, 5760, 8232, 8233, 8239, 8287, 12288} \cup (8192..8202)
IsIntSpace(c) == Ord(c) \in IntSpaces

\* str(n) for an int n.
RECURSIVE NatToStr(_)
NatToStr(n) ==
  IF n < 10 THEN <<Digits[n + 1]>>
  ELSE Append(NatToStr(n \div 10), Digits[(n % 10) + 1])

IntToStr(n) == IF n < 0 THEN <<"-">> \o NatToStr(-n) ELSE NatToStr(n)

\* The text without the whitespace int() skips at its ends.
RECURSIVE strip(_)
strip(cs) ==
  IF cs # <<>> /\ IsIntSpace(Head(cs)) THEN strip(Tail(cs))
  ELSE IF cs # <<>> /\ IsIntSpace(cs[Len(cs)]) THEN strip(SubSeq(cs, 1, Len(cs) - 1))
  ELSE cs

\* The ASCII digits that the digits of an int literal stand for, the
\* underscores left out.
RECURSIVE DigitsText(_)
DigitsText(cs) ==
  IF cs = <<>> THEN <<>>
  ELSE (IF Head(cs) = "_" THEN <<>> ELSE <<Digits[DigitVal(Head(cs)) + 1]>>)
         \o DigitsText(Tail(cs))

\* str() of the number that digits write: no leading zero but the last.
RECURSIVE NoLeadingZeros(_)
NoLeadingZeros(ds) ==
  IF Len(ds) > 1 /\ Head(ds) = "0" THEN NoLeadingZeros(Tail(ds)) ELSE ds

\* An int is held as its decimal text, str(n): Python's ints have no width.
Decimal(neg, ds) == IF neg /\ ds # <<"0">> THEN <<"-">> \o ds ELSE ds
\* n < 0 and n < 1 of an int held as decimal text.
IsNegative(d) == Head(d) = "-"
BelowOne(d) == Head(d) = "-" \/ d = <<"0">>

\* The digits of an int literal: digits, with single underscores between them.
IntWellFormed(body) ==
  /\ body # <<>>
  /\ \A i \in 1..Len(body) : body[i] = "_" \/ IsDecimal(body[i])
  /\ body[1] # "_"
  /\ body[Len(body)] # "_"
  /\ \A i \in 1..(Len(body) - 1) : ~(body[i] = "_" /\ body[i + 1] = "_")

\* sys.get_int_max_str_digits(): int() refuses more digits than this.
MaxStrDigits == 43 * 100

ParseIntDigits(neg, body) ==
  IF IntWellFormed(body) /\ Len(DigitsText(body)) <= MaxStrDigits
  THEN <<"ok", Decimal(neg, NoLeadingZeros(DigitsText(body)))>>
  ELSE <<"raise", "ValueError", <<"invalid literal for int()">>>>

ParseIntStripped(t) ==
  ParseIntDigits(t # <<>> /\ Head(t) = "-",
                 IF t # <<>> /\ Head(t) \in {"+", "-"} THEN Tail(t) ELSE t)

\* int(text, 10): surrounding whitespace and one sign are allowed, and single
\* underscores between digits. <<"ok", str(n)>>, or <<"raise", "ValueError", ..>>.
ParseInt(cs) == ParseIntStripped(strip(cs))

---------------------------------------------------------------------------
(* Outcomes and values                                                     *)

Ok(v) == <<"ok", v>>
Raise(exc, detail) == <<"raise", exc, detail>>
IsOk(r) == r[1] = "ok"
IsRaise(r) == r[1] = "raise"
Val(r) == r[2]
Exc(r) == r[2]
Detail(r) == r[3]
\* What r raised, or else what F makes of the value of r.
AndThen(r, F(_)) == IF r[1] = "raise" THEN r ELSE F(r[2])

PyNone == <<"none">>
PyBool(b) == <<"bool", b>>
PyInt(n) == <<"int", n>>
PyStr(cs) == <<"str", cs>>
PyEid(cs) == <<"eid", cs>>
PyBin(bs) == <<"bin", bs>>
PyList(vs) == <<"list", vs>>
PyDict(ps) == <<"dict", ps>>
PyObj(cls, ps) == <<"obj", cls, ps>>
PyOpaque == <<"opaque">>
PyLong(neg, bs) == <<"long", neg, bs>>
PyFloat(bs) == <<"float", bs>>

Tag(v) == v[1]
\* The text of a str or of an EID (a str subclass).
IsText(v) == Tag(v) \in {"str", "eid"}
Text(v) == v[2]

\* The bits of bytes, most significant first; the value of at most 31 bits;
\* the bytes of bits.
ByteBits(b) == [i \in 1..8 |-> (b \div 2^(8 - i)) % 2]
RECURSIVE Bits(_)
Bits(bs) == IF bs = <<>> THEN <<>> ELSE ByteBits(Head(bs)) \o Bits(Tail(bs))
RECURSIVE BitsValue(_)
BitsValue(bits) ==
  IF bits = <<>> THEN 0
  ELSE 2 * BitsValue(SubSeq(bits, 1, Len(bits) - 1)) + bits[Len(bits)]
RECURSIVE Pack(_)
Pack(bits) ==
  IF bits = <<>> THEN <<>> ELSE <<BitsValue(SubSeq(bits, 1, 8))>> \o Pack(Drop(bits, 8))
Zeros(n) == [i \in 1..n |-> 0]
\* The bits from the first 1 on.
RECURSIVE Significant(_)
Significant(bits) ==
  IF bits # <<>> /\ Head(bits) = 0 THEN Significant(Tail(bits)) ELSE bits

\* The least int the model counts with, -2^31.
MinInt == -2147483647 - 1
\* The Python int of the sign neg and the magnitude bits (no leading zero,
\* at most 64 bits).
IntValue(neg, bits) ==
  IF Len(bits) <= 31 THEN PyInt(IF neg THEN -BitsValue(bits) ELSE BitsValue(bits))
  ELSE IF neg /\ bits = <<1>> \o Zeros(31) THEN PyInt(MinInt)
  ELSE PyLong(neg, Pack(Zeros(64 - Len(bits)) \o bits))

\* The fields of a binary64: sign, biased exponent, the 52 bits of the
\* mantissa.
F64Neg(bs) == bs[1] >= 128
F64Exp(bs) == (bs[1] % 128) * 16 + (bs[2] \div 16)
F64Mantissa(bs) == Drop(Bits(bs), 12)
IsNaN(bs) == F64Exp(bs) = 2047 /\ F64Mantissa(bs) # Zeros(52)
IsZeroFloat(bs) == F64Exp(bs) = 0 /\ F64Mantissa(bs) = Zeros(52)
\* Whether the float is an integer of a magnitude below 2^64, and the bits
\* of that magnitude.
F64Integral(bs) ==
  \/ IsZeroFloat(bs)
  \/ /\ F64Exp(bs) >= 1023
     /\ F64Exp(bs) <= 1086
     /\ \A i \in (F64Exp(bs) - 1022)..52 : F64Mantissa(bs)[i] = 0
F64MagBits(bs) ==
  IF IsZeroFloat(bs) THEN <<>>
  ELSE IF F64Exp(bs) <= 1075
  THEN <<1>> \o SubSeq(F64Mantissa(bs), 1, F64Exp(bs) - 1023)
  ELSE <<1>> \o F64Mantissa(bs) \o Zeros(F64Exp(bs) - 1075)
\* The int a float of an integer value equals.
FloatInt(bs) == IntValue(F64Neg(bs), F64MagBits(bs))

\* Python's truth value of v. An EID overrides __bool__ (eid.py:32-33); every
\* other str, bytes, list and dict is true when not empty, a number when not 0.
Truthy(v) ==
  CASE Tag(v) = "none" -> FALSE
    [] Tag(v) = "bool" -> v[2]
    [] Tag(v) = "int"  -> v[2] # 0
    [] Tag(v) = "float" -> ~IsZeroFloat(v[2])
    [] Tag(v) = "eid"  -> v[2] # <<"d", "t", "n", ":", "n", "o", "n", "e">>
    [] Tag(v) \in {"str", "bin", "list", "dict"} -> v[2] # <<>>
    [] OTHER -> TRUE

\* dict operations on the sequence of pairs.
Keys(ps) == {ps[i][1] : i \in 1..Len(ps)}
HasKey(ps, k) == \E i \in 1..Len(ps) : ps[i][1] = k
Get(ps, k) == ps[CHOOSE i \in 1..Len(ps) : ps[i][1] = k][2]
\* d[k] = v: an existing key keeps its place.
Put(ps, k, v) ==
  IF HasKey(ps, k)
  THEN [i \in 1..Len(ps) |-> IF ps[i][1] = k THEN <<k, v>> ELSE ps[i]]
  ELSE Append(ps, <<k, v>>)
\* a | b: the keys of a in their order with b's values where b has the key,
\* then b's other keys.
RECURSIVE Merge(_, _)
Merge(a, b) == IF b = <<>> THEN a ELSE Merge(Put(a, b[1][1], b[1][2]), Tail(b))

\* Python's == on values, by a normal form that equal values share: an EID
\* is a str and compares by its text; a bool is the int 0 or 1 and a float of
\* an integer value is that int; two dicts are equal when they map the same
\* keys to equal values, in whatever order; two dataclass instances are equal
\* when of one class with equal fields.
RECURSIVE Plain(_)
RECURSIVE PlainSeq(_)
PlainPairs(ps) == [k \in Keys(ps) |-> Plain(Get(ps, k))]
PlainSeq(vs) == IF vs = <<>> THEN <<>> ELSE <<Plain(Head(vs))>> \o PlainSeq(Tail(vs))
Plain(v) ==
  CASE Tag(v) = "eid"   -> <<"str", v[2]>>
    [] Tag(v) = "bool"  -> <<"int", IF v[2] THEN 1 ELSE 0>>
    [] Tag(v) = "float" -> IF F64Integral(v[2]) THEN FloatInt(v[2]) ELSE v
    [] Tag(v) = "list"  -> <<"list", PlainSeq(v[2])>>
    [] Tag(v) = "dict"  -> <<"dict", PlainPairs(v[2])>>
    [] Tag(v) = "obj"   -> <<"obj", v[2], PlainPairs(v[3])>>
    [] OTHER -> v
\* Whether v is or holds a NaN, which equals nothing.
RECURSIVE HasNaN(_)
HasNaN(v) ==
  CASE Tag(v) = "float" -> IsNaN(v[2])
    [] Tag(v) = "list"  -> \E i \in 1..Len(v[2]) : HasNaN(v[2][i])
    [] Tag(v) = "dict"  -> \E i \in 1..Len(v[2]) : HasNaN(v[2][i][2])
    [] Tag(v) = "obj"   -> \E i \in 1..Len(v[3]) : HasNaN(v[3][i][2])
    [] OTHER -> FALSE
\* a == b of two values that share no object.
PyEq(a, b) == Plain(a) = Plain(b) /\ ~HasNaN(a)

---------------------------------------------------------------------------
(* eid.py: the endpoint-identifier grammar                                 *)

DTN_NONE == <<"d", "t", "n", ":", "n", "o", "n", "e">>
DTN_PREFIX == <<"d", "t", "n", ":", "/", "/">>
IPN_PREFIX == <<"i", "p", "n", ":">>

Letters ==
  {Ascii[i] : i \in (OrdMap["A"] - 31)..(OrdMap["Z"] - 31)}
    \cup {Ascii[i] : i \in (OrdMap["a"] - 31)..(OrdMap["z"] - 31)}

\* The character class of _NODE_RE.
NodeChars ==
  Letters \cup DigitSet
    \cup {"-", ".", "_", "~", "!", "$", "&", "'", "(", ")", "*", "+", ",", ";", "="}

\* The empty node not matched.
NODE_RE_match_nonEmpty(node) == node # <<>> /\ \A i \in 1..Len(node) : node[i] \in NodeChars

\* _NODE_RE.match(node): the empty text, or one or more characters of the
\* class; $ also matches before a newline that ends the text.
NODE_RE_match(node) ==
  \A i \in 1..Len(node) : node[i] \in NodeChars \/ (i = Len(node) /\ Ord(node[i]) = 10)

\* The node number 0 let through.
normalize_ipn_numbers_zeroNode(node_i, svc_i) ==
  IF IsRaise(node_i) \/ IsRaise(svc_i)
  THEN Raise("EIDError", <<"invalid IPN numbers">>)
  ELSE IF IsNegative(Val(node_i))
  THEN Raise("EIDError", <<"IPN node must be >= 1">>)
  ELSE IF IsNegative(Val(svc_i))
  THEN Raise("EIDError", <<"IPN service must be >= 0">>)
  ELSE Ok(PyStr(IPN_PREFIX \o Val(node_i) \o <<".">> \o Val(svc_i)))

\* EID._normalize on the text of a str: Ok(PyStr(canonical text)) or EIDError.
\* The ipn scheme, from the two numbers on.
normalize_ipn_numbers(node_i, svc_i) ==
  IF IsRaise(node_i) \/ IsRaise(svc_i)
  THEN Raise("EIDError", <<"invalid IPN numbers">>)
  ELSE IF BelowOne(Val(node_i))
  THEN Raise("EIDError", <<"IPN node must be >= 1">>)
  ELSE IF IsNegative(Val(svc_i))
  THEN Raise("EIDError", <<"IPN service must be >= 0">>)
  ELSE Ok(PyStr(IPN_PREFIX \o Val(node_i) \o <<".">> \o Val(svc_i)))

normalize_ipn_parts(parts) ==
  IF Len(parts) # 2
  THEN Raise("EIDError", <<"invalid IPN EID: need exactly one dot (node.service)">>)
  ELSE normalize_ipn_numbers(ParseInt(parts[1]), ParseInt(parts[2]))

normalize_ipn_rest(rest) ==
  IF startswith(rest, <<"/", "/">>)
  THEN Raise("EIDError", <<"invalid IPN EID: must be 'ipn:N.S', not 'ipn://N.S'">>)
  ELSE normalize_ipn_parts(split(rest, "."))

normalize_ipn(eid) == normalize_ipn_rest(Drop(eid, Len(IPN_PREFIX)))

\* The dtn scheme, from the split into node and service on.
normalize_dtn_parts(node, service) ==
  IF ~NODE_RE_match(node)
  THEN Raise("EIDError", <<"invalid DTN node">>)
  ELSE IF service = <<>>
  THEN Ok(PyStr(DTN_PREFIX \o node \o <<"/">>))
  ELSE IF ~isascii(service)
  THEN Raise("EIDError", <<"invalid DTN service">>)
  ELSE Ok(PyStr(DTN_PREFIX \o node \o <<"/">> \o service))

normalize_dtn_split(ssp, slash) ==
  normalize_dtn_parts(IF slash > 0 THEN SubSeq(ssp, 1, slash - 1) ELSE ssp,
                      IF slash > 0 THEN Drop(ssp, slash) ELSE <<>>)

normalize_dtn_ssp(ssp) ==
  IF ssp = <<"n", "o", "n", "e">>
  THEN Raise("EIDError", <<"invalid DTN host: use 'dtn:none', not 'dtn://none'">>)
  ELSE IF ssp = <<>>
  THEN Raise("EIDError", <<"invalid DTN EID: missing node">>)
  ELSE normalize_dtn_split(ssp, Find(ssp, "/"))

normalize_dtn(eid) == normalize_dtn_ssp(Drop(eid, Len(DTN_PREFIX)))

_normalize(eid) ==
  IF eid = DTN_NONE THEN Ok(PyStr(eid))
  ELSE IF startswith(eid, DTN_PREFIX) THEN normalize_dtn(eid)
  ELSE IF startswith(eid, IPN_PREFIX) THEN normalize_ipn(eid)
  ELSE Raise("EIDError", <<"unknown scheme (expected 'dtn:' or 'ipn:')">>)

\* super().__new__(cls, norm)
EID_of(norm) == Ok(PyEid(Text(norm)))

\* EID(value): EID.__new__. The startswith of bytes takes no str
\* (eid.py:118); a value that is neither str nor bytes has no startswith.
EID(value) ==
  IF Tag(value) = "bin"
  THEN Raise("TypeError",
             <<"startswith first arg must be bytes or a tuple of bytes, not str">>)
  ELSE IF ~IsText(value)
  THEN Raise("AttributeError", <<"object has no attribute 'startswith'">>)
  ELSE AndThen(_normalize(Text(value)), EID_of)

\* EID.__bool__
EID_bool(e) == Text(e) # DTN_NONE

\* EID.none()
EID_none == EID(PyStr(DTN_NONE))

\* EID.dtn(node, service), service a text or PyNone
EID_dtn(node, service) ==
  IF ~NODE_RE_match(node)
  THEN Raise("EIDError", <<"invalid DTN node">>)
  ELSE IF service = PyNone \/ service = PyStr(<<>>)
  THEN EID(PyStr(DTN_PREFIX \o node \o <<"/">>))
  ELSE IF ~isascii(Text(service))
  THEN Raise("EIDError", <<"invalid DTN service">>)
  ELSE EID(PyStr(DTN_PREFIX \o node \o <<"/">> \o Text(service)))

\* EID.ipn(node_number, service_number)
EID_ipn(node_number, service_number) ==
  IF node_number < 1 THEN Raise("EIDError", <<"IPN node must be >= 1">>)
  ELSE IF service_number < 0 THEN Raise("EIDError", <<"IPN service must be >= 0">>)
  ELSE EID(PyStr(IPN_PREFIX \o IntToStr(node_number) \o <<".">> \o IntToStr(service_number)))

\* text.split(sep, maxsplit=1)
split_once(cs, sep) ==
  IF Find(cs, sep) = 0 THEN <<cs>>
  ELSE <<SubSeq(cs, 1, Find(cs, sep) - 1), Drop(cs, Find(cs, sep))>>

\* parts[i] of a list: the part, or IndexError.
Item(parts, i) ==
  IF i <= Len(parts) THEN Ok(PyStr(parts[i]))
  ELSE Raise("IndexError", <<"list index out of range">>)

\* The parts node() and service() choose from.
EID_parts(e) ==
  IF startswith(Text(e), DTN_PREFIX)
  THEN split_once(Drop(Text(e), Len(DTN_PREFIX)), "/")
  ELSE split_once(Drop(Text(e), Len(IPN_PREFIX)), ".")

\* EID.node()
EID_node(e) == IF Text(e) = DTN_NONE THEN Ok(PyNone) ELSE Item(EID_parts(e), 1)

\* EID.service()
EID_service(e) == IF Text(e) = DTN_NONE THEN Ok(PyNone) ELSE Item(EID_parts(e), 2)

---------------------------------------------------------------------------
(* MessagePack, as ormsgpack.packb and ormsgpack.unpackb produce and read   *)
(* it: nil, bool, the int and float families, str, bin, array, map.         *)

\* The k low bytes of n, most significant first.
RECURSIVE BigEndian(_, _)
BigEndian(n, k) ==
  IF k = 0 THEN <<>> ELSE Append(BigEndian(n \div 256, k - 1), n % 256)

\* The unsigned value of big-endian bytes.
RECURSIVE BigEndianValue(_)
BigEndianValue(bs) ==
  IF bs = <<>> THEN 0
  ELSE 256 * BigEndianValue(SubSeq(bs, 1, Len(bs) - 1)) + bs[Len(bs)]

\* The two's complement of bytes: 2^(8 * Len(bs)) less their value.
RECURSIVE Incr(_)
Incr(bs) ==
  IF bs = <<>> THEN <<>>
  ELSE IF bs[Len(bs)] = 255 THEN Append(Incr(SubSeq(bs, 1, Len(bs) - 1)), 0)
  ELSE Append(SubSeq(bs, 1, Len(bs) - 1), bs[Len(bs)] + 1)
Negate(bs) == Incr([i \in 1..Len(bs) |-> 255 - bs[i]])

\* An int in the smallest of the formats that hold it: positive fixint,
\* uint 8/16/32, negative fixint, int 8/16/32.
EncInt(n) ==
  IF n >= 0
  THEN IF n < 128 THEN <<n>>
       ELSE IF n < 256 THEN <<204>> \o BigEndian(n, 1)
       ELSE IF n < 65536 THEN <<205>> \o BigEndian(n, 2)
       ELSE <<206>> \o BigEndian(n, 4)
  ELSE IF n >= -32 THEN <<256 + n>>
       ELSE IF n >= -128 THEN <<208, 256 + n>>
       ELSE IF n >= -32768 THEN <<209>> \o BigEndian(65536 + n, 2)
       ELSE <<210, 256 + (n \div 16777216)>> \o BigEndian(n % 16777216, 3)

\* An int of a magnitude from 2^31 on: uint 32, uint 64 or int 64.
EncLong(neg, bs) ==
  IF neg THEN <<211>> \o Negate(bs)
  ELSE IF SubSeq(bs, 1, 4) = <<0, 0, 0, 0>> THEN <<206>> \o SubSeq(bs, 5, 8)
  ELSE <<207>> \o bs

\* Whether the int fits 64 bits: it is then at least -2^63.
LongFits(neg, bs) == ~neg \/ bs[1] < 128 \/ bs = <<128, 0, 0, 0, 0, 0, 0, 0>>

EncStrHeader(n) ==
  IF n < 32 THEN <<160 + n>>
  ELSE IF n < 256 THEN <<217, n>>
  ELSE IF n < 65536 THEN <<218>> \o BigEndian(n, 2)
  ELSE <<219>> \o BigEndian(n, 4)

EncBinHeader(n) ==
  IF n < 256 THEN <<196, n>>
  ELSE IF n < 65536 THEN <<197>> \o BigEndian(n, 2)
  ELSE <<198>> \o BigEndian(n, 4)
EncArrayHeader(n) ==
  IF n < 16 THEN <<144 + n>>
  ELSE IF n < 65536 THEN <<220>> \o BigEndian(n, 2)
  ELSE <<221>> \o BigEndian(n, 4)
EncMapHeader(n) ==
  IF n < 16 THEN <<128 + n>>
  ELSE IF n < 65536 THEN <<222>> \o BigEndian(n, 2)
  ELSE <<223>> \o BigEndian(n, 4)

\* Whether UTF-8 can encode the text: it holds no surrogate.
Utf8Encodable(cs) == \A i \in 1..Len(cs) : ~IsSurrogate(Ord(cs[i]))

\* Whether packb can encode v: everything but an opaque object, an int
\* outside 64 bits and a str with a surrogate. A dataclass instance is
\* encoded as the map of its fields.
RECURSIVE Encodable(_)
Encodable(v) ==
  CASE Tag(v) = "opaque" -> FALSE
    [] Tag(v) = "long" -> LongFits(v[2], v[3])
    [] Tag(v) \in {"str", "eid"} -> Utf8Encodable(v[2])
    [] Tag(v) = "list" -> \A i \in 1..Len(v[2]) : Encodable(v[2][i])
    [] Tag(v) = "dict" ->
         \A i \in 1..Len(v[2]) : Utf8Encodable(v[2][i][1]) /\ Encodable(v[2][i][2])
    [] Tag(v) = "obj"  ->
         \A i \in 1..Len(v[3]) : Utf8Encodable(v[3][i][1]) /\ Encodable(v[3][i][2])
    [] OTHER -> TRUE

RECURSIVE Enc(_)
RECURSIVE EncSeq(_)
RECURSIVE EncPairs(_)
EncSeq(vs) == IF vs = <<>> THEN <<>> ELSE Enc(Head(vs)) \o EncSeq(Tail(vs))
EncPairs(ps) ==
  IF ps = <<>> THEN <<>>
  ELSE EncStrHeader(Len(Utf8(ps[1][1]))) \o Utf8(ps[1][1]) \o Enc(ps[1][2])
         \o EncPairs(Tail(ps))
Enc(v) ==
  CASE Tag(v) = "none" -> <<192>>
    [] Tag(v) = "bool" -> IF v[2] THEN <<195>> ELSE <<194>>
    [] Tag(v) = "int"  -> EncInt(v[2])
    [] Tag(v) = "long" -> EncLong(v[2], v[3])
    [] Tag(v) = "float" -> <<203>> \o v[2]
    [] Tag(v) \in {"str", "eid"} -> EncStrHeader(Len(Utf8(v[2]))) \o Utf8(v[2])
    [] Tag(v) = "bin"  -> EncBinHeader(Len(v[2])) \o v[2]
    [] Tag(v) = "list" -> EncArrayHeader(Len(v[2])) \o EncSeq(v[2])
    [] Tag(v) = "dict" -> EncMapHeader(Len(v[2])) \o EncPairs(v[2])
    [] Tag(v) = "obj"  -> EncMapHeader(Len(v[3])) \o EncPairs(v[3])

\* ormsgpack.packb(v): Ok(PyBin(bytes)) or MsgpackEncodeError.
packb(v) ==
  IF Encodable(v) THEN Ok(PyBin(Enc(v)))
  ELSE Raise("MsgpackEncodeError", <<"Type is not msgpack serializable">>)

\* The length of the UTF-8 sequence that bs starts with, 0 when it starts
\* with none: no stray or missing continuation byte, no overlong form, no
\* surrogate, nothing above U+10FFFF.
IsCont(b) == b >= 128 /\ b < 192
Utf8Len(bs) ==
  IF bs[1] < 128 THEN 1
  ELSE IF /\ bs[1] >= 194 /\ bs[1] < 224
          /\ Len(bs) >= 2 /\ IsCont(bs[2])
  THEN 2
  ELSE IF /\ bs[1] >= 224 /\ bs[1] < 240
          /\ Len(bs) >= 3 /\ IsCont(bs[2]) /\ IsCont(bs[3])
          /\ (bs[1] = 224 => bs[2] >= 160)
          /\ (bs[1] = 237 => bs[2] < 160)
  THEN 3
  ELSE IF /\ bs[1] >= 240 /\ bs[1] < 245
          /\ Len(bs) >= 4 /\ IsCont(bs[2]) /\ IsCont(bs[3]) /\ IsCont(bs[4])
          /\ (bs[1] = 240 => bs[2] >= 144)
          /\ (bs[1] = 244 => bs[2] < 144)
  THEN 4
  ELSE 0

\* The code point of the sequence of n bytes that bs starts with.
Utf8CodePoint(bs, n) ==
  CASE n = 1 -> bs[1]
    [] n = 2 -> (bs[1] - 192) * 64 + (bs[2] - 128)
    [] n = 3 -> (bs[1] - 224) * 4096 + (bs[2] - 128) * 64 + (bs[3] - 128)
    [] n = 4 -> (bs[1] - 240) * 262144 + (bs[2] - 128) * 4096 + (bs[3] - 128) * 64
                  + (bs[4] - 128)

\* c before the text of r, when r is one.
PrependChar(c, r) == IF r[1] = "ok" THEN <<"ok", <<c>> \o r[2]>> ELSE r

\* bytes.decode("utf-8"), strict: <<"ok", characters>>, or <<"err">>.
RECURSIVE Utf8Decode(_)
Utf8Decode(bs) ==
  IF bs = <<>> THEN <<"ok", <<>>>>
  ELSE IF Utf8Len(bs) = 0 THEN <<"err">>
  ELSE PrependChar(CharOf(Utf8CodePoint(bs, Utf8Len(bs))),
                   Utf8Decode(Drop(bs, Utf8Len(bs))))

\* The binary64 of sign s, biased exponent e and mantissa bits m.
F64(s, e, m) == Pack(<<s>> \o [i \in 1..11 |-> (e \div 2^(11 - i)) % 2] \o m)

\* The binary64 of the same value as the binary32 of bytes bs. A signalling
\* NaN comes out quiet, as the conversion instruction leaves it.
F32Exp(bs) == (bs[1] % 128) * 2 + (bs[2] \div 128)
F32Mantissa(bs) == Drop(Bits(bs), 9)
Widen(bs) ==
  IF F32Exp(bs) = 255
  THEN F64(bs[1] \div 128, 2047,
           (IF F32Mantissa(bs) = Zeros(23) THEN <<0>> ELSE <<1>>)
             \o Tail(F32Mantissa(bs)) \o Zeros(29))
  ELSE IF F32Exp(bs) = 0
  THEN IF F32Mantissa(bs) = Zeros(23) THEN F64(bs[1] \div 128, 0, Zeros(52))
       ELSE F64(bs[1] \div 128, 873 + Len(Significant(F32Mantissa(bs))),
                Tail(Significant(F32Mantissa(bs)))
                  \o Zeros(53 - Len(Significant(F32Mantissa(bs)))))
  ELSE F64(bs[1] \div 128, F32Exp(bs) + 896, F32Mantissa(bs) \o Zeros(29))

\* The decoder: Dec(bs) reads one value off the front of bs and gives
\* <<"ok", value, rest>>, or <<"err">> when bs is no MessagePack.
RECURSIVE Dec(_)
RECURSIVE DecSeq(_, _)
RECURSIVE DecPairs(_, _)
DecStrText(cs, rest) == IF cs[1] = "ok" THEN <<"ok", PyStr(cs[2]), rest>> ELSE <<"err">>
DecStr(bs, hdr, n) ==
  IF Len(bs) < hdr + n THEN <<"err">>
  ELSE DecStrText(Utf8Decode(SubSeq(bs, hdr + 1, hdr + n)), Drop(bs, hdr + n))
DecBin(bs, hdr, n) ==
  IF Len(bs) < hdr + n THEN <<"err">>
  ELSE <<"ok", PyBin(SubSeq(bs, hdr + 1, hdr + n)), Drop(bs, hdr + n)>>
DecSeq(bs, n) ==
  IF n = 0 THEN <<"ok", <<>>, bs>>
  ELSE LET h == Dec(bs)
       IN  IF h[1] # "ok" THEN <<"err">>
           ELSE LET t == DecSeq(h[3], n - 1)
                IN  IF t[1] # "ok" THEN <<"err">>
                    ELSE <<"ok", <<h[2]>> \o t[2], t[3]>>
\* The pairs of a map: every key a str; a key that comes again keeps its
\* place and takes the later value.
DecPairs(bs, n) ==
  IF n = 0 THEN <<"ok", <<>>, bs>>
  ELSE LET k == Dec(bs)
       IN  IF k[1] # "ok" \/ Tag(k[2]) # "str" THEN <<"err">>
           ELSE LET v == Dec(k[3])
                IN  IF v[1] # "ok" THEN <<"err">>
                    ELSE LET t == DecPairs(v[3], n - 1)
                         IN  IF t[1] # "ok" THEN <<"err">>
                             ELSE <<"ok", Merge(<<<<Text(k[2]), v[2]>>>>, t[2]), t[3]>>
DecArray(bs, hdr, n) ==
  LET r == DecSeq(Drop(bs, hdr), n)
  IN  IF r[1] = "ok" THEN <<"ok", PyList(r[2]), r[3]>> ELSE <<"err">>
DecMap(bs, hdr, n) ==
  LET r == DecPairs(Drop(bs, hdr), n)
  IN  IF r[1] = "ok" THEN <<"ok", PyDict(r[2]), r[3]>> ELSE <<"err">>
\* The k bytes after the format byte.
Need(bs, k) == Len(bs) >= 1 + k
After(bs, k) == SubSeq(bs, 2, 1 + k)
\* uint 8/16/32/64
DecUInt(bs, k) ==
  IF ~Need(bs, k) THEN <<"err">>
  ELSE <<"ok", IntValue(FALSE, Significant(Bits(After(bs, k)))), Drop(bs, 1 + k)>>
\* int 8/16/32/64: two's complement
DecSInt(bs, k) ==
  IF ~Need(bs, k) THEN <<"err">>
  ELSE IF bs[2] < 128 THEN DecUInt(bs, k)
  ELSE <<"ok", IntValue(TRUE, Significant(Bits(Negate(After(bs, k))))), Drop(bs, 1 + k)>>
\* float 32, float 64
DecF32(bs) ==
  IF ~Need(bs, 4) THEN <<"err">>
  ELSE <<"ok", PyFloat(Widen(After(bs, 4))), Drop(bs, 5)>>
DecF64(bs) ==
  IF ~Need(bs, 8) THEN <<"err">>
  ELSE <<"ok", PyFloat(After(bs, 8)), Drop(bs, 9)>>
\* The length that the k bytes after the format byte announce, -1 when they
\* are not all there or announce 2^31 or more, which no input holds.
DecLen(bs, k) ==
  IF ~Need(bs, k) \/ (k = 4 /\ bs[2] >= 128) THEN -1 ELSE BigEndianValue(After(bs, k))
\* str, bin, array and map 8/16/32
DecSized(kind, bs, k) ==
  IF DecLen(bs, k) < 0 THEN <<"err">>
  ELSE CASE kind = "str"   -> DecStr(bs, 1 + k, DecLen(bs, k))
         [] kind = "bin"   -> DecBin(bs, 1 + k, DecLen(bs, k))
         [] kind = "array" -> DecArray(bs, 1 + k, DecLen(bs, k))
         [] kind = "map"   -> DecMap(bs, 1 + k, DecLen(bs, k))
DecByte(b, bs) ==
  CASE b < 128 -> <<"ok", PyInt(b), Tail(bs)>>
    [] b >= 128 /\ b < 144 -> DecMap(bs, 1, b - 128)
    [] b >= 144 /\ b < 160 -> DecArray(bs, 1, b - 144)
    [] b >= 160 /\ b < 192 -> DecStr(bs, 1, b - 160)
    [] b = 192 -> <<"ok", PyNone, Tail(bs)>>
    [] b = 194 -> <<"ok", PyBool(FALSE), Tail(bs)>>
    [] b = 195 -> <<"ok", PyBool(TRUE), Tail(bs)>>
    [] b = 196 -> DecSized("bin", bs, 1)
    [] b = 197 -> DecSized("bin", bs, 2)
    [] b = 198 -> DecSized("bin", bs, 4)
    [] b = 202 -> DecF32(bs)
    [] b = 203 -> DecF64(bs)
    [] b = 204 -> DecUInt(bs, 1)
    [] b = 205 -> DecUInt(bs, 2)
    [] b = 206 -> DecUInt(bs, 4)
    [] b = 207 -> DecUInt(bs, 8)
    [] b = 208 -> DecSInt(bs, 1)
    [] b = 209 -> DecSInt(bs, 2)
    [] b = 210 -> DecSInt(bs, 4)
    [] b = 211 -> DecSInt(bs, 8)
    [] b = 217 -> DecSized("str", bs, 1)
    [] b = 218 -> DecSized("str", bs, 2)
    [] b = 219 -> DecSized("str", bs, 4)
    [] b = 220 -> DecSized("array", bs, 2)
    [] b = 221 -> DecSized("array", bs, 4)
    [] b = 222 -> DecSized("map", bs, 2)
    [] b = 223 -> DecSized("map", bs, 4)
    [] b >= 224 -> <<"ok", PyInt(b - 256), Tail(bs)>>
    [] OTHER -> <<"err">>
Dec(bs) == IF bs = <<>> THEN <<"err">> ELSE DecByte(bs[1], bs)

\* ormsgpack.unpackb(serialized): the one value the bytes encode, or
\* MsgpackDecodeError when they are no MessagePack or bytes are left over.
unpackb(serialized) ==
  LET r == Dec(serialized)
  IN  IF r[1] = "ok" /\ r[3] = <<>> THEN Ok(r[2])
      ELSE Raise("MsgpackDecodeError", <<"invalid MessagePack">>)

---------------------------------------------------------------------------
(* messages.py: the message classes                                        *)

kType == <<"T", "y", "p", "e">>
kError == <<"E", "r", "r", "o", "r">>
kEndpointID == <<"E", "n", "d", "p", "o", "i", "n", "t", "I", "D">>
kArgs == <<"A", "r", "g", "s">>
kBundleID == <<"B", "u", "n", "d", "l", "e", "I", "D">>
kMailbox == <<"M", "a", "i", "l", "b", "o", "x">>
kNew == <<"N", "e", "w">>
kBundles == <<"B", "u", "n", "d", "l", "e", "s">>
kRemove == <<"R", "e", "m", "o", "v", "e">>
kBundleContent == <<"B", "u", "n", "d", "l", "e", "C", "o", "n", "t", "e", "n", "t">>
kSourceID == <<"S", "o", "u", "r", "c", "e", "I", "D">>
kDestinationID == <<"D", "e", "s", "t", "i", "n", "a", "t", "i", "o", "n", "I", "D">>
kPayload == <<"P", "a", "y", "l", "o", "a", "d">>

\* class MessageType(IntEnum)
MT_Response == 1
MT_RegisterEID == 2
MT_UnregisterEID == 3
MT_BundleCreate == 4
MT_BundleCreateResponse == 5
MT_ListBundles == 6
MT_ListResponse == 7
MT_FetchBundle == 8
MT_FetchBundleResponse == 9
MT_FetchAllBundles == 10
MT_FetchAllBundlesResponse == 11

MessageTypeValues == MT_Response..MT_FetchAllBundlesResponse

\* The dataclass fields of each class, inherited ones first.
Fields(cls) ==
  CASE cls = "Message"                 -> <<kType>>
    [] cls = "Response"                -> <<kType, kError>>
    [] cls = "RegisterUnregister"      -> <<kType, kEndpointID>>
    [] cls = "BundleCreate"            -> <<kType, kArgs>>
    [] cls = "BundleCreateResponse"    -> <<kType, kError, kBundleID>>
    [] cls = "ListBundles"             -> <<kType, kMailbox, kNew>>
    [] cls = "ListResponse"            -> <<kType, kError, kBundles>>
    [] cls = "FetchBundle"             -> <<kType, kMailbox, kBundleID, kRemove>>
    [] cls = "FetchBundleResponse"     -> <<kType, kError, kBundleContent>>
    [] cls = "FetchAllBundles"         -> <<kType, kMailbox, kNew, kRemove>>
    [] cls = "FetchAllBundlesResponse" -> <<kType, kError, kBundles>>
    [] cls = "BundleContent"           -> <<kBundleID, kSourceID, kDestinationID, kPayload>>

\* The fields with a default value: BundleContent.Payload = b"".
HasDefault(cls, f) == cls = "BundleContent" /\ f = kPayload
Default(cls, f) == PyBin(<<>>)

\* The classes that are Response or derive from it: isinstance(x, Response).
ResponseFamily ==
  {"Response", "BundleCreateResponse", "ListResponse", "FetchBundleResponse",
   "FetchAllBundlesResponse"}
ClassOf(obj) == obj[2]
DictOf(obj) == obj[3]
isinstance(v, cls) ==
  /\ Tag(v) = "obj"
  /\ \/ ClassOf(v) = cls
     \/ cls = "Response" /\ ClassOf(v) \in ResponseFamily
     \/ cls = "Message" /\ ClassOf(v) # "BundleContent"
\* obj.field
Attr(obj, f) == Get(DictOf(obj), f)

\* Whether v is a number that equals an int the model counts with, and that
\* int: a bool is an int, and a float of an integer value equals it.
IsIntLike(v) == Tag(v) \in {"int", "bool", "float"} /\ Tag(Plain(v)) = "int"
IntOf(v) == Plain(v)[2]

\* The Type of the parent class Response accepted as well.
TypeIs_loose(ps, t) ==
  /\ IsIntLike(Get(ps, kType))
  /\ IntOf(Get(ps, kType)) \in {t, 1}

\* Type == MessageType.X, for a Type that is an int, an enum member, a bool
\* (True == 1) or a float (1.0 == 1); a value of another type equals no member.
TypeIs(ps, t) == IsIntLike(Get(ps, kType)) /\ IntOf(Get(ps, kType)) = t

NeedsType(t) == Raise("InvalidMessageError", <<"Message needs MessageType", t>>)

\* __post_init__ of each class on the fields ps: Ok(PyNone) or
\* InvalidMessageError. Message and BundleContent define none.
post_init(cls, ps) ==
  CASE cls = "Response" ->
         IF ~TypeIs(ps, MT_Response) THEN NeedsType(MT_Response) ELSE Ok(PyNone)
    [] cls = "RegisterUnregister" ->
         IF ~TypeIs(ps, MT_RegisterEID) /\ ~TypeIs(ps, MT_UnregisterEID)
         THEN NeedsType(MT_RegisterEID)
         ELSE IF ~Truthy(Get(ps, kEndpointID))
         THEN Raise("InvalidMessageError", <<"EndpointID must not be none/empty">>)
         ELSE Ok(PyNone)
    [] cls = "BundleCreate" ->
         IF ~TypeIs(ps, MT_BundleCreate) THEN NeedsType(MT_BundleCreate)
         ELSE IF ~Truthy(Get(ps, kArgs))
         THEN Raise("InvalidMessageError", <<"Args must not be empty">>)
         ELSE Ok(PyNone)
    [] cls = "BundleCreateResponse" ->
         IF ~TypeIs(ps, MT_BundleCreateResponse) THEN NeedsType(MT_BundleCreateResponse)
         ELSE IF ~Truthy(Get(ps, kBundleID))
         THEN Raise("InvalidMessageError", <<"BundleID must not be empty">>)
         ELSE Ok(PyNone)
    [] cls = "ListBundles" ->
         IF ~TypeIs(ps, MT_ListBundles) THEN NeedsType(MT_ListBundles)
         ELSE IF ~Truthy(Get(ps, kMailbox))
         THEN Raise("InvalidMessageError", <<"Mailbox must not be none/empty">>)
         ELSE Ok(PyNone)
    [] cls = "ListResponse" ->
         IF ~TypeIs(ps, MT_ListResponse) THEN NeedsType(MT_ListResponse) ELSE Ok(PyNone)
    [] cls = "FetchBundle" ->
         IF ~TypeIs(ps, MT_FetchBundle) THEN NeedsType(MT_FetchBundle)
         ELSE IF ~Truthy(Get(ps, kMailbox))
         THEN Raise("InvalidMessageError", <<"Mailbox must not be none/empty">>)
         ELSE IF ~Truthy(Get(ps, kBundleID))
         THEN Raise("InvalidMessageError", <<"BundleID must not be empty">>)
         ELSE Ok(PyNone)
    [] cls = "FetchBundleResponse" ->
         IF ~TypeIs(ps, MT_FetchBundleResponse) THEN NeedsType(MT_FetchBundleResponse)
         ELSE Ok(PyNone)
    [] cls = "FetchAllBundles" ->
         IF ~TypeIs(ps, MT_FetchAllBundles) THEN NeedsType(MT_FetchAllBundles)
         ELSE IF ~Truthy(Get(ps, kMailbox))
         THEN Raise("InvalidMessageError", <<"Mailbox must not be none/empty">>)
         ELSE Ok(PyNone)
    [] cls = "FetchAllBundlesResponse" ->
         IF ~TypeIs(ps, MT_FetchAllBundlesResponse)
         THEN NeedsType(MT_FetchAllBundlesResponse)
         ELSE Ok(PyNone)
    [] OTHER -> Ok(PyNone)

\* The fields of a new instance, in their declared order, from the keyword
\* arguments data and the defaults.
FieldPairs(cls, data) ==
  [i \in 1..Len(Fields(cls)) |->
     <<Fields(cls)[i],
       IF HasKey(data, Fields(cls)[i]) THEN Get(data, Fields(cls)[i])
       ELSE Default(cls, Fields(cls)[i])>>]

\* The instance with fields ps, once __post_init__ has passed.
NewChecked(cls, ps) == AndThen(post_init(cls, ps), LAMBDA none : Ok(PyObj(cls, ps)))

\* cls(**data): the dataclass constructor. Every key must be a field and every
\* field without a default must be given (TypeError otherwise); the instance
\* holds the fields in their declared order; then __post_init__ runs.
New(cls, data) ==
  IF \E k \in Keys(data) : \A i \in 1..Len(Fields(cls)) : Fields(cls)[i] # k
  THEN Raise("TypeError", <<"got an unexpected keyword argument">>)
  ELSE IF \E i \in 1..Len(Fields(cls)) :
            ~HasKey(data, Fields(cls)[i]) /\ ~HasDefault(cls, Fields(cls)[i])
  THEN Raise("TypeError", <<"missing required argument">>)
  ELSE NewChecked(cls, FieldPairs(cls, data))

\* data[key] = EID(data[key]), as the from_dict methods do before cls(**data):
\* Ok(PyDict(updated data)), KeyError when the key is absent, or what EID raises.
ConvertEID(data, key) ==
  IF ~HasKey(data, key) THEN Raise("KeyError", <<"key", key>>)
  ELSE AndThen(EID(Get(data, key)), LAMBDA e : Ok(PyDict(Put(data, key, e))))

\* BundleContent.from_dict(data)
BundleContent_from_dict(data) ==
  IF Tag(data) # "dict" THEN Raise("TypeError", <<"BundleContent is no mapping">>)
  ELSE AndThen(ConvertEID(data[2], kSourceID),
         LAMBDA a : AndThen(ConvertEID(a[2], kDestinationID),
           LAMBDA b : New("BundleContent", b[2])))

\* [BundleContent.from_dict(bundle_content) for bundle_content in vs]: the list
\* of the instances, or what the first failing element raises.
RECURSIVE BundleContents_from_dicts(_)
BundleContents_from_dicts(vs) ==
  IF vs = <<>> THEN Ok(PyList(<<>>))
  ELSE AndThen(BundleContent_from_dict(Head(vs)),
         LAMBDA h : AndThen(BundleContents_from_dicts(Tail(vs)),
           LAMBDA t : Ok(PyList(<<h>> \o t[2]))))

\* Message.from_dict, Response.from_dict, RegisterUnregister.from_dict,
\* BundleCreate.from_dict, BundleCreateResponse.from_dict,
\* ListResponse.from_dict: cls(**data) and nothing else.
Plain_from_dict(cls, data) == New(cls, data)

\* ListBundles.from_dict, FetchBundle.from_dict, FetchAllBundles.from_dict
Mailbox_from_dict(cls, data) ==
  AndThen(ConvertEID(data, kMailbox), LAMBDA c : New(cls, c[2]))

\* FetchBundleResponse.from_dict
FetchBundleResponse_from_dict(cls, data) ==
  IF ~HasKey(data, kBundleContent) THEN Raise("KeyError", <<"key", kBundleContent>>)
  ELSE AndThen(BundleContent_from_dict(Get(data, kBundleContent)),
         LAMBDA c : New(cls, Put(data, kBundleContent, c)))

\* for x in v: the elements of a list, the characters of a str, the ints of
\* bytes, the keys of a dict; TypeError for what is not iterable.
Iterate(v) ==
  CASE Tag(v) = "list" -> Ok(v[2])
    [] Tag(v) \in {"str", "eid"} -> Ok([i \in 1..Len(v[2]) |-> PyStr(<<v[2][i]>>)])
    [] Tag(v) = "bin" -> Ok([i \in 1..Len(v[2]) |-> PyInt(v[2][i])])
    [] Tag(v) = "dict" -> Ok([i \in 1..Len(v[2]) |-> PyStr(v[2][i][1])])
    [] OTHER -> Raise("TypeError", <<"object is not iterable">>)

\* FetchAllBundlesResponse.from_dict
FetchAllBundlesResponse_from_dict(cls, data) ==
  IF ~HasKey(data, kBundles) THEN Raise("KeyError", <<"key", kBundles>>)
  ELSE AndThen(Iterate(Get(data, kBundles)),
         LAMBDA vs : AndThen(BundleContents_from_dicts(vs),
           LAMBDA c : New(cls, Put(data, kBundles, c))))

\* The from_dict class method of each message class on the pairs of data.
from_dict(cls, data) ==
  CASE cls \in {"ListBundles", "FetchBundle", "FetchAllBundles"} ->
         Mailbox_from_dict(cls, data)
    [] cls = "FetchBundleResponse" -> FetchBundleResponse_from_dict(cls, data)
    [] cls = "FetchAllBundlesResponse" -> FetchAllBundlesResponse_from_dict(cls, data)
    [] OTHER -> Plain_from_dict(cls, data)

\* BundleContent.dictify(): the fields whose value is true.
RECURSIVE TruthyPairs(_)
TruthyPairs(ps) ==
  IF ps = <<>> THEN <<>>
  ELSE (IF Truthy(ps[1][2]) THEN <<ps[1]>> ELSE <<>>) \o TruthyPairs(Tail(ps))
BundleContent_dictify(bc) == PyDict(TruthyPairs(DictOf(bc)))

RECURSIVE BundleContents_dictify(_)
BundleContents_dictify(vs) ==
  IF vs = <<>> THEN <<>>
  ELSE <<BundleContent_dictify(Head(vs))>> \o BundleContents_dictify(Tail(vs))

\* message.dictify(): the instance's __dict__ merged with the class's own
\* dict, which for the two fetch responses holds the dictified contents.
dictify(message) ==
  CASE ClassOf(message) = "FetchBundleResponse" ->
         PyDict(Merge(DictOf(message),
           <<<<kBundleContent, BundleContent_dictify(Attr(message, kBundleContent))>>>>))
    [] ClassOf(message) = "FetchAllBundlesResponse" ->
         PyDict(Merge(DictOf(message),
           <<<<kBundles, PyList(BundleContents_dictify(Attr(message, kBundles)[2]))>>>>))
    [] OTHER -> PyDict(Merge(DictOf(message), DictOf(message)))

\* serialize(message): Ok(PyBin(bytes)) or MsgpackEncodeError.
serialize(message) == packb(dictify(message))

\* The table without its entry for BundleCreate.
MESSAGE_CONSTRUCTORS_noCreate(t) ==
  CASE t = MT_Response                -> "Response"
    [] t = MT_RegisterEID             -> "RegisterUnregister"
    [] t = MT_UnregisterEID           -> "RegisterUnregister"
    [] t = MT_BundleCreateResponse    -> "BundleCreateResponse"
    [] t = MT_ListBundles             -> "ListBundles"
    [] t = MT_ListResponse            -> "ListResponse"
    [] t = MT_FetchBundle             -> "FetchBundle"
    [] t = MT_FetchBundleResponse     -> "FetchBundleResponse"
    [] t = MT_FetchAllBundles         -> "FetchAllBundles"
    [] t = MT_FetchAllBundlesResponse -> "FetchAllBundlesResponse"
    [] OTHER -> "none"

\* MESSAGE_CONSTRUCTORS: the class whose from_dict each MessageType names.
MESSAGE_CONSTRUCTORS(t) ==
  CASE t = MT_Response                -> "Response"
    [] t = MT_RegisterEID             -> "RegisterUnregister"
    [] t = MT_UnregisterEID           -> "RegisterUnregister"
    [] t = MT_BundleCreate            -> "BundleCreate"
    [] t = MT_BundleCreateResponse    -> "BundleCreateResponse"
    [] t = MT_ListBundles             -> "ListBundles"
    [] t = MT_ListResponse            -> "ListResponse"
    [] t = MT_FetchBundle             -> "FetchBundle"
    [] t = MT_FetchBundleResponse     -> "FetchBundleResponse"
    [] t = MT_FetchAllBundles         -> "FetchAllBundles"
    [] t = MT_FetchAllBundlesResponse -> "FetchAllBundlesResponse"
    [] OTHER -> "none"

\* MessageType(value): the enum member that equals value, one of 1..11;
\* ValueError otherwise.
MessageType(v) ==
  IF IsIntLike(v) /\ IntOf(v) \in MessageTypeValues THEN Ok(PyInt(IntOf(v)))
  ELSE Raise("ValueError", <<"is not a valid MessageType">>)

\* deserialize from the constructor lookup on.
deserialize_construct(ctor, data) ==
  IF ctor = "none"
  THEN Raise("InvalidMessageError", <<"No constructor defined">>)
  ELSE from_dict(ctor, data)

\* An unknown Type reported in the words of a missing one.
deserialize_typed_sameText(msg_type, data) ==
  IF IsRaise(msg_type)
  THEN Raise("InvalidMessageError", <<"Message missing 'Type' field">>)
  ELSE deserialize_construct(MESSAGE_CONSTRUCTORS(Val(msg_type)[2]), data)

\* deserialize from MessageType(data_dict["Type"]) on.
deserialize_typed(msg_type, data) ==
  IF IsRaise(msg_type)
  THEN Raise("InvalidMessageError", <<"Unknown MessageType ID">>)
  ELSE deserialize_construct(MESSAGE_CONSTRUCTORS(Val(msg_type)[2]), data)

\* deserialize from the unpacked value on.
deserialize_unpacked(data_dict) ==
  IF Tag(data_dict) = "list"
  THEN \* "Type" not in a list that holds no such element; indexing the
       \* list with a str otherwise
       IF \A i \in 1..Len(data_dict[2]) : data_dict[2][i] # PyStr(kType)
       THEN Raise("InvalidMessageError", <<"Message missing 'Type' field">>)
       ELSE Raise("TypeError", <<"list indices must be integers">>)
  ELSE IF Tag(data_dict) = "str"
  THEN \* "Type" not in a str is a substring test
       IF ~Contains(data_dict[2], kType)
       THEN Raise("InvalidMessageError", <<"Message missing 'Type' field">>)
       ELSE Raise("TypeError", <<"string indices must be integers">>)
  ELSE IF Tag(data_dict) # "dict"
  THEN Raise("TypeError", <<"argument is not iterable or subscriptable">>)
  ELSE IF ~HasKey(data_dict[2], kType)
  THEN Raise("InvalidMessageError", <<"Message missing 'Type' field">>)
  ELSE deserialize_typed(MessageType(Get(data_dict[2], kType)), data_dict[2])

\* deserialize(serialized)
deserialize(serialized) == AndThen(unpackb(serialized), deserialize_unpacked)

\* The class whose from_dict deserialize reaches (messages.py:367), "none"
\* when it raises before.
constructor_of(data_dict) ==
  IF Tag(data_dict) # "dict" THEN "none"
  ELSE IF ~HasKey(data_dict[2], kType) THEN "none"
  ELSE IF IsRaise(MessageType(Get(data_dict[2], kType))) THEN "none"
  ELSE MESSAGE_CONSTRUCTORS(Val(MessageType(Get(data_dict[2], kType)))[2])

constructor_called(serialized) ==
  IF IsRaise(unpackb(serialized)) THEN "none"
  ELSE constructor_of(Val(unpackb(serialized)))

---------------------------------------------------------------------------
(* client.py: the length prefix                                            *)

\* A Python int in 0..2^64-1 is held as four 16-bit limbs, most significant
\* first.
LimbBase == 256 * 256
PrefixLen == 8
U64(n) == <<0, 0, n \div LimbBase, n % LimbBase>>
U64Zero == <<0, 0, 0, 0>>
\* The value of an int the model can count with (below 2^31), -1 above.
U64Small(L) == IF L[1] = 0 /\ L[2] = 0 /\ L[3] < 32768 THEN L[3] * LimbBase + L[4] ELSE -1

\* int.to_bytes(length=8, byteorder="little"): the wrong byte order.
to_bytes_little(L) ==
  BigEndian(L[4] % 256, 1) \o BigEndian(L[4] \div 256, 1)
    \o BigEndian(L[3] % 256, 1) \o BigEndian(L[3] \div 256, 1)
    \o BigEndian(L[2] % 256, 1) \o BigEndian(L[2] \div 256, 1)
    \o BigEndian(L[1] % 256, 1) \o BigEndian(L[1] \div 256, 1)

\* message_length.to_bytes(length=8, byteorder="big", signed=False)
to_bytes(L) ==
  BigEndian(L[1], 2) \o BigEndian(L[2], 2) \o BigEndian(L[3], 2) \o BigEndian(L[4], 2)

\* int.from_bytes(bytes=data, byteorder="big", signed=False) of at most 8 bytes
from_bytes(data) ==
  LET padded == [i \in 1..(PrefixLen - Len(data)) |-> 0] \o data
  IN  [i \in 1..4 |-> padded[2 * i - 1] * 256 + padded[2 * i]]

---------------------------------------------------------------------------
(* The inputs of the model                                                 *)

\* A list reply holds up to MaxBundles entries.
MaxBundles == 2
\* dtnd may pause, or close, after each of the first MaxPartial bytes of the
\* prefix and of the body of its reply, besides after the prefix and at the end.
MaxPartial == 2

n1svc == <<"d", "t", "n", ":", "/", "/", "n", "1", "/", "s">>
ipn10 == <<"i", "p", "n", ":", "1", ".", "0">>
b1 == <<"b", "1">>
boom == <<"b", "o", "o", "m">>
\* The bundle IDs b1, b2, ...
BundleIdAt(i) == <<"b">> \o NatToStr(i)

\* The arguments of the client operations.
\* A text that makes a request longer than the connection's buffer.
LongLen == 64
LongText == [i \in 1..LongLen |-> "x"]

Calls ==
  {[op |-> "register_unregister", eid |-> PyEid(e), register |-> r]
     : e \in {n1svc, DTN_NONE}, r \in BOOLEAN}
  \cup {[op |-> "create_bundle", args |-> PyDict(a)]
     : a \in {<< <<<<"d">>, PyStr(n1svc)>> >>, <<>>, << <<<<"d">>, PyOpaque>> >>,
              << <<<<"d">>, PyStr(LongText)>> >>}}
  \cup {[op |-> "list_bundles", mailbox |-> PyEid(e), new_only |-> TRUE]
     : e \in {n1svc, DTN_NONE}}
  \cup {[op |-> "fetch_bundle", mailbox |-> PyEid(e), bundle_id |-> PyStr(b),
         delete |-> FALSE] : e \in {ipn10, DTN_NONE}, b \in {b1, <<>>}}
  \cup {[op |-> "fetch_all_bundles", mailbox |-> PyEid(e), new_only |-> FALSE,
         delete |-> TRUE] : e \in {ipn10, DTN_NONE}}

\* The mappings dtnd may pack as the body of its reply.
WireContent(i) ==
  PyDict(<< <<kBundleID, PyStr(BundleIdAt(i))>>, <<kSourceID, PyStr(n1svc)>>,
            <<kDestinationID, PyStr(ipn10)>>, <<kPayload, PyBin(<<0, 255, i>>)>> >>)
WireContentNoPayload ==
  PyDict(<< <<kBundleID, PyStr(b1)>>, <<kSourceID, PyStr(n1svc)>>,
            <<kDestinationID, PyStr(DTN_NONE)>> >>)
WireContentNoSource ==
  PyDict(<< <<kBundleID, PyStr(b1)>>, <<kDestinationID, PyStr(ipn10)>> >>)
WireReply(t, error, rest) ==
  PyDict(<< <<kType, PyInt(t)>>, <<kError, PyStr(error)>> >> \o rest)

ReplyDicts ==
  {WireReply(MT_Response, e, <<>>) : e \in {<<>>, boom}}
  \cup {WireReply(MT_BundleCreateResponse, e, << <<kBundleID, PyStr(b)>> >>)
          : e \in {<<>>, boom}, b \in {b1}}
  \cup {WireReply(MT_BundleCreateResponse, <<>>, << <<kBundleID, PyStr(<<>>)>> >>)}
  \cup {WireReply(MT_ListResponse, <<>>,
                  << <<kBundles, PyList([i \in 1..n |-> PyStr(BundleIdAt(i))])>> >>)
          : n \in 0..MaxBundles}
  \cup {WireReply(MT_ListResponse, boom, << <<kBundles, PyList(<<>>)>> >>)}
  \cup {WireReply(MT_FetchBundleResponse, e, << <<kBundleContent, c>> >>)
          : e \in {<<>>, boom}, c \in {WireContent(1)}}
  \cup {WireReply(MT_FetchBundleResponse, <<>>, << <<kBundleContent, c>> >>)
          : c \in {WireContentNoPayload, WireContentNoSource}}
  \cup {WireReply(MT_FetchAllBundlesResponse, <<>>,
                  << <<kBundles, PyList([i \in 1..n |-> WireContent(i)])>> >>)
          : n \in 0..MaxBundles}
  \cup {WireReply(MT_FetchAllBundlesResponse, boom, << <<kBundles, PyList(<<>>)>> >>)}
  \cup {PyDict(<< <<kType, PyInt(MT_ListBundles)>>, <<kMailbox, PyStr(n1svc)>>,
                  <<kNew, PyBool(TRUE)>> >>)}
  \cup {PyDict(<< <<kError, PyStr(<<>>)>> >>)}
  \cup {PyDict(<< <<kType, PyInt(999)>>, <<kError, PyStr(<<>>)>> >>)}
  \cup {PyDict(<< <<kType, PyInt(MT_Response)>> >>)}

\* prefix announcing n, then body
Framed(n, body) == to_bytes(U64(n)) \o body
Packed(d) == Val(packb(d))[2]

\* The byte streams dtnd may send on the connection: well-framed bodies,
\* bytes that are no MessagePack, a prefix of 0, a prefix announcing more than
\* is sent (100 for 40 bytes), one announcing less, and prefixes announcing
\* 2^64-1, 0x0102030405060708 and 2^40.
ReplyStreams ==
  {Framed(Len(Packed(d)), Packed(d)) : d \in ReplyDicts}
  \cup {Framed(1, <<193>>)}
  \cup {Framed(0, Packed(WireReply(MT_Response, <<>>, <<>>)))}
  \cup {Framed(100, SubSeq(Packed(WireReply(MT_FetchBundleResponse, <<>>,
                                    << <<kBundleContent, WireContent(1)>> >>)), 1, 40))}
  \cup {Framed(5, Packed(WireReply(MT_Response, <<>>, <<>>)))}
  \cup {p \o <<192>> : p \in {[i \in 1..PrefixLen |-> 255], [i \in 1..PrefixLen |-> i],
                               <<0, 0, 1, 0, 0, 0, 0, 0>>}}

\* The offsets of a stream at which dtnd may pause or close.
Cuts(stream) ==
  {c \in 1..Len(stream) :
     \/ c <= MaxPartial
     \/ c = PrefixLen
     \/ c > PrefixLen /\ c <= PrefixLen + MaxPartial
     \/ c = Len(stream)}

---------------------------------------------------------------------------
(* The state                                                               *)

VARIABLES
  call,           \* the client operation invoked and its arguments
  pc,             \* where the call stands
  message,        \* the request message the operation built
  message_bytes,  \* serialize(message)
  reply_length,   \* the length the reply prefix announced
  sock,           \* the socket the call holds: its place in conns, 0 before socket()
  opened,         \* how many sockets the call has created
  connects,       \* how many times the call has called connect
  nsent,          \* how many bytes the call's sendall calls have put on the connection
  writes,         \* the byte strings of the sendall calls that returned, in order
  reads,          \* the byte strings recv has returned to the call, in order
  decoded,        \* the byte strings the call has passed to deserialize
  outcome,        \* what the operation returned or raised
  conns,          \* the sockets the kernel has made, each with its connection
  backlog,        \* the connections dtnd has yet to accept, oldest first; 0 is
                  \* the connection of another program
  endpoint,       \* what socket_path names when connect resolves it
  codecPc,        \* the codec run: where it stands
  codecIn,        \* its input: a message to serialize or a mapping to pack
  codecWire,      \* the bytes
  codecOut,       \* what deserialize made of them
  codecCtor,      \* the from_dict that deserialize called, or the class constructed;
                  \* of an EID, what node() and service() return
  stream,         \* everything dtnd sends on the connection, if it is let to
  other,          \* a second call, while it is not the one that runs
  diagnostics     \* the byte strings kept in a diagnostic location

callVars ==
  <<call, pc, message, message_bytes, reply_length, sock, opened, connects, nsent,
    writes, reads, decoded, outcome>>
peerVars == <<conns, backlog, endpoint>>
codecVars == <<codecPc, codecIn, codecWire, codecOut, codecCtor>>
vars == <<callVars, peerVars, codecVars, stream, other, diagnostics>>

NoOutcome == <<"pending">>

\* The socket of the call that runs exists and is not closed.
sockOpen == sock # 0 /\ conns[sock].open
\* What dtnd has sent on the call's connection and the call has not received.
inbuf == IF sock = 0 THEN <<>> ELSE conns[sock].inbuf
\* What dtnd has still to send on it.
pending == IF sock = 0 THEN <<>> ELSE conns[sock].pending
\* How many bytes dtnd has sent on it.
delivered == IF sock = 0 THEN 0 ELSE conns[sock].delivered
\* dtnd has closed its end of it.
peerClosed == sock # 0 /\ conns[sock].peerClosed

CallIdle ==
  /\ pc = "idle"
  /\ message = PyNone
  /\ message_bytes = <<>>
  /\ reply_length = U64Zero
  /\ sock = 0
  /\ opened = 0
  /\ connects = 0
  /\ nsent = 0
  /\ writes = <<>>
  /\ reads = <<>>
  /\ decoded = <<>>
  /\ outcome = NoOutcome
  /\ conns = <<>>

CodecOff ==
  /\ codecPc = "off"
  /\ codecIn = PyNone
  /\ codecWire = NoOutcome
  /\ codecOut = NoOutcome
  /\ codecCtor = "none"

\* No second call.
Alone == other = PyNone

\* Nothing is kept in a diagnostic location when a call starts. No statement
\* of client.py or messages.py writes a file or keeps reply bytes anywhere
\* but in the local variable data (client.py:59-65, messages.py:352-367), so
\* no action changes diagnostics.
NoDiagnostics == diagnostics = {}

\* What socket_path may name: a socket dtnd listens on; nothing; a path
\* through a regular file; a file, a directory or a socket nobody listens on;
\* a socket the caller may not write to; an empty or overlong path; a value
\* that is no path; a str that UTF-8 cannot encode (a lone surrogate).
Endpoints ==
  {"listening", "missing", "notdir", "refused", "denied", "invalid", "nostr", "surrogate"}

\* The kernel keeps BacklogMax connections for dtnd to accept; connect waits
\* while that many wait already.
BacklogMax == 1
\* The bytes a connection holds for dtnd to read; sendall waits while they
\* are that many. The kernel takes a request of ordinary size whole, prefix
\* and body, whether or not dtnd reads; only a request longer than its buffer
\* (212992 bytes by default) is queued in pieces. SndBuf is that buffer on
\* the scale of the model, where LongText makes the one request longer than
\* it.
SndBuf == 64

Init ==
  /\ call \in Calls
  /\ stream \in ReplyStreams
  /\ endpoint \in Endpoints
  /\ backlog \in {<<>>, <<0>>}
  /\ CallIdle
  /\ CodecOff
  /\ Alone
  /\ NoDiagnostics

---------------------------------------------------------------------------
(* client.py: the operations                                               *)

\* The request built with no check of its fields.
BuildRequest_unchecked(c) ==
  CASE c.op = "register_unregister" ->
         Ok(PyObj("RegisterUnregister",
             << <<kType, PyInt(IF c.register THEN MT_RegisterEID ELSE MT_UnregisterEID)>>,
                <<kEndpointID, c.eid>> >>))
    [] c.op = "create_bundle" ->
         Ok(PyObj("BundleCreate", << <<kType, PyInt(MT_BundleCreate)>>, <<kArgs, c.args>> >>))
    [] c.op = "list_bundles" ->
         Ok(PyObj("ListBundles",
             << <<kType, PyInt(MT_ListBundles)>>, <<kMailbox, c.mailbox>>,
                <<kNew, PyBool(c.new_only)>> >>))
    [] c.op = "fetch_bundle" ->
         Ok(PyObj("FetchBundle",
             << <<kType, PyInt(MT_FetchBundle)>>, <<kMailbox, c.mailbox>>,
                <<kBundleID, c.bundle_id>>, <<kRemove, PyBool(c.delete)>> >>))
    [] c.op = "fetch_all_bundles" ->
         Ok(PyObj("FetchAllBundles",
             << <<kType, PyInt(MT_FetchAllBundles)>>, <<kMailbox, c.mailbox>>,
                <<kNew, PyBool(c.new_only)>>, <<kRemove, PyBool(c.delete)>> >>))

\* The request message each operation constructs (client.py:99, 129, 161,
\* 194, 231): Ok(message) or the InvalidMessageError of __post_init__.
BuildRequest(c) ==
  CASE c.op = "register_unregister" ->
         New("RegisterUnregister",
             << <<kType, PyInt(IF c.register THEN MT_RegisterEID ELSE MT_UnregisterEID)>>,
                <<kEndpointID, c.eid>> >>)
    [] c.op = "create_bundle" ->
         New("BundleCreate", << <<kType, PyInt(MT_BundleCreate)>>, <<kArgs, c.args>> >>)
    [] c.op = "list_bundles" ->
         New("ListBundles",
             << <<kType, PyInt(MT_ListBundles)>>, <<kMailbox, c.mailbox>>,
                <<kNew, PyBool(c.new_only)>> >>)
    [] c.op = "fetch_bundle" ->
         New("FetchBundle",
             << <<kType, PyInt(MT_FetchBundle)>>, <<kMailbox, c.mailbox>>,
                <<kBundleID, c.bundle_id>>, <<kRemove, PyBool(c.delete)>> >>)
    [] c.op = "fetch_all_bundles" ->
         New("FetchAllBundles",
             << <<kType, PyInt(MT_FetchAllBundles)>>, <<kMailbox, c.mailbox>>,
                <<kNew, PyBool(c.new_only)>>, <<kRemove, PyBool(c.delete)>> >>)

\* The class of reply each operation insists on (client.py:135, 167, 202,
\* 239); register_unregister insists on none.
ExpectedClass(op) ==
  CASE op = "create_bundle"       -> "BundleCreateResponse"
    [] op = "list_bundles"        -> "ListResponse"
    [] op = "fetch_bundle"        -> "FetchBundleResponse"
    [] op = "fetch_all_bundles"   -> "FetchAllBundlesResponse"

\* The operations that check the class of the reply.
ChecksClass(op) == op # "register_unregister"

\* What each operation returns from the reply it accepted.
Payload(op, response) ==
  CASE op = "register_unregister" -> PyNone
    [] op = "create_bundle"       -> Attr(response, kBundleID)
    [] op = "list_bundles"        -> Attr(response, kBundles)
    [] op = "fetch_bundle"        -> Attr(response, kBundleContent)
    [] op = "fetch_all_bundles"   -> Attr(response, kBundles)

\* The class of the reply checked before its error field.
HandleResponse_classFirst(op, response) ==
  IF ChecksClass(op) /\ ~isinstance(response, ExpectedClass(op))
  THEN Raise("DataError", <<"response should have been", ExpectedClass(op), ClassOf(response)>>)
  ELSE IF Truthy(Attr(response, kError))
  THEN Raise("DTNDError", <<"error", Attr(response, kError)>>)
  ELSE Ok(Payload(op, response))

\* The operation's handling of the response _send_message returned: the
\* error field first, then the class of the reply, then the payload.
HandleResponse(op, response) ==
  IF Truthy(Attr(response, kError))
  THEN Raise("DTNDError", <<"error", Attr(response, kError)>>)
  ELSE IF ChecksClass(op) /\ ~isinstance(response, ExpectedClass(op))
  THEN Raise("DataError", <<"response should have been", ExpectedClass(op), ClassOf(response)>>)
  ELSE Ok(Payload(op, response))

\* _send_message's check of the reply it decoded (client.py:68-73), then the
\* operation's handling of what it returns.
CheckReply(op, reply) ==
  IF ~isinstance(reply, "Response")
  THEN Raise("DataError", <<"Received response is not a response message", ClassOf(reply)>>)
  ELSE HandleResponse(op, reply)

\* _send_message from the reply bytes on (client.py:65-73).
HandleReply(op, data) ==
  AndThen(deserialize(data), LAMBDA reply : CheckReply(op, reply))

\* s.recv(bufsize) on the receive buffer buf: at most bufsize bytes of what
\* has arrived, and nothing at end of stream.
recv(buf, bufsize) == SubSeq(buf, 1, IF bufsize < Len(buf) THEN bufsize ELSE Len(buf))

\* recv for the prefix returning only when bytes have arrived.
CanRecv_afterPrefix == inbuf # <<>> \/ (peerClosed /\ pc = "recvbody")

\* recv returning only when bytes have arrived, not at end of stream.
CanRecv_dataOnly == inbuf # <<>>

\* recv waits while nothing has arrived and dtnd has not closed its end.
CanRecv == inbuf # <<>> \/ peerClosed

\* The socket socket(AF_UNIX, SOCK_STREAM) returns, not yet connected.
FreshSocket ==
  [open |-> TRUE, connected |-> FALSE, accepted |-> FALSE, sent |-> <<>>, unread |-> 0,
   pending |-> <<>>, inbuf |-> <<>>, delivered |-> 0, peerClosed |-> FALSE,
   reset |-> FALSE, answer |-> PyNone]

\* The sockets cs after the call's socket, if it has one, was closed.
Closed(cs) == IF sock = 0 THEN cs ELSE [cs EXCEPT ![sock].open = FALSE]
\* The sockets after bs was queued on the call's connection for dtnd to read.
Queued(bs) == [conns EXCEPT ![sock].sent = @ \o bs, ![sock].unread = @ + Len(bs)]
\* The sockets after recv returned data from the call's connection.
Taken(data) == [conns EXCEPT ![sock].inbuf = Drop(@, Len(data))]

\* The call ends with the socket left as it is.
Finish_leak(result, cs) ==
  /\ pc' = "done"
  /\ outcome' = result
  /\ conns' = cs

\* The call ends: the with statement (client.py:32) has closed the socket,
\* if one was made, before the operation returns or the exception leaves it.
Finish(result, cs) ==
  /\ pc' = "done"
  /\ outcome' = result
  /\ conns' = Closed(cs)

\* The operation constructs its request message.
Constructed(built) ==
  IF IsRaise(built)
  THEN /\ Finish(built, conns)
       /\ UNCHANGED message
  ELSE /\ message' = Val(built)
       /\ pc' = "socket"
       /\ UNCHANGED <<outcome, conns>>

Construct ==
  /\ pc = "idle"
  /\ Constructed(BuildRequest(call))
  /\ UNCHANGED <<call, message_bytes, reply_length, sock, opened, connects, nsent,
                 writes, reads, decoded, backlog, endpoint, codecVars, stream, other,
                 diagnostics>>

\* One socket kept for all calls: socket() returns the one that exists.
CreateSocket_shared ==
  /\ pc = "socket"
  /\ conns' = IF conns = <<>> THEN <<FreshSocket>> ELSE conns
  /\ sock' = 1
  /\ opened' = opened + 1
  /\ pc' = "connect"
  /\ UNCHANGED <<call, message, message_bytes, reply_length, connects, nsent, writes,
                 reads, decoded, outcome, backlog, endpoint, codecVars, stream, other,
                 diagnostics>>

\* socket(AF_UNIX, SOCK_STREAM) (client.py:32): a new socket of the call's own.
CreateSocket ==
  /\ pc = "socket"
  /\ conns' = Append(conns, FreshSocket)
  /\ sock' = Len(conns) + 1
  /\ opened' = opened + 1
  /\ pc' = "connect"
  /\ UNCHANGED <<call, message, message_bytes, reply_length, connects, nsent, writes,
                 reads, decoded, outcome, backlog, endpoint, codecVars, stream, other,
                 diagnostics>>

\* socket(AF_UNIX, SOCK_STREAM) raises: the process or the system has no
\* descriptor left. No socket was made.
SocketFails ==
  /\ pc = "socket"
  /\ Finish(Raise("OSError", <<"socket">>), conns)
  /\ UNCHANGED <<call, message, message_bytes, reply_length, sock, opened, connects,
                 nsent, writes, reads, decoded, backlog, endpoint, codecVars, stream,
                 other, diagnostics>>

\* s.connect(socket_path) returns (client.py:33): dtnd listens on the path
\* and the kernel has room for the connection, which waits to be accepted.
\* While the backlog is full connect waits.
Connect ==
  /\ pc = "connect"
  /\ endpoint = "listening"
  /\ Len(backlog) < BacklogMax
  /\ connects' = connects + 1
  /\ conns' = [conns EXCEPT ![sock].connected = TRUE, ![sock].pending = stream]
  /\ backlog' = Append(backlog, sock)
  /\ pc' = "sendlen"
  /\ UNCHANGED <<call, message, message_bytes, reply_length, sock, opened, nsent,
                 writes, reads, decoded, outcome, endpoint, codecVars, stream, other,
                 diagnostics>>

\* What s.connect(socket_path) raises for what the path names.
ConnectError(e) ==
  CASE e = "missing" -> "FileNotFoundError"
    [] e = "notdir"  -> "NotADirectoryError"
    [] e = "refused" -> "ConnectionRefusedError"
    [] e = "denied"  -> "PermissionError"
    [] e = "invalid" -> "OSError"
    [] e = "nostr"   -> "TypeError"
    [] e = "surrogate" -> "UnicodeEncodeError"

\* A failed connect tried again on a new socket.
ConnectFails_retry ==
  /\ pc = "connect"
  /\ endpoint # "listening"
  /\ opened < 3
  /\ connects' = connects + 1
  /\ pc' = "socket"
  /\ UNCHANGED <<call, message, message_bytes, reply_length, sock, opened, nsent,
                 writes, reads, decoded, outcome, peerVars, codecVars, stream, other,
                 diagnostics>>

\* s.connect(socket_path) raises (client.py:33), and the exception leaves the
\* with block and the operation.
ConnectFails ==
  /\ pc = "connect"
  /\ endpoint # "listening"
  /\ connects' = connects + 1
  /\ Finish(Raise(ConnectError(endpoint), <<"connect">>), conns)
  /\ UNCHANGED <<call, message, message_bytes, reply_length, sock, opened, nsent,
                 writes, reads, decoded, backlog, endpoint, codecVars, stream, other,
                 diagnostics>>

\* serialize(message), the length prefix, and s.sendall(message_length_bytes)
\* (client.py:38-46). The connection is new and holds nothing of the call, so
\* the 8 bytes are queued at once, unless dtnd has closed its end.
SendLengthOf(serialized) ==
  IF IsRaise(serialized)
  THEN /\ Finish(serialized, conns)
       /\ UNCHANGED <<message_bytes, writes, nsent>>
  ELSE /\ message_bytes' = Val(serialized)[2]
       /\ IF peerClosed
          THEN /\ Finish(Raise("BrokenPipeError", <<"sendall">>), conns)
               /\ UNCHANGED <<writes, nsent>>
          ELSE /\ writes' = Append(writes, to_bytes(U64(Len(Val(serialized)[2]))))
               /\ nsent' = nsent + PrefixLen
               /\ conns' = Queued(to_bytes(U64(Len(Val(serialized)[2]))))
               /\ pc' = "sendbody"
               /\ UNCHANGED outcome

SendLength ==
  /\ pc = "sendlen"
  /\ SendLengthOf(serialize(message))
  /\ UNCHANGED <<call, message, reply_length, sock, opened, connects, reads, decoded,
                 backlog, endpoint, codecVars, stream, other, diagnostics>>

\* The room the call's connection has for more bytes.
Room == SndBuf - conns[sock].unread
\* The bytes of message_bytes that sendall has yet to queue.
BodyLeft == Len(message_bytes) - (nsent - PrefixLen)
\* How many of them it queues now.
Chunk == IF Room < BodyLeft THEN Room ELSE BodyLeft

\* s.sendall(message_bytes) (client.py:48), one pass of its loop: it queues
\* what the connection has room for and returns when all is queued; it waits
\* while there is no room; once dtnd has closed its end it raises, leaving on
\* the connection what it had queued.
SendBody ==
  /\ pc = "sendbody"
  /\ IF peerClosed
     THEN /\ Finish(Raise("BrokenPipeError", <<"sendall">>), conns)
          /\ UNCHANGED <<writes, nsent>>
     ELSE /\ Room > 0
          /\ nsent' = nsent + Chunk
          /\ conns' = Queued(SubSeq(message_bytes, nsent - PrefixLen + 1,
                                    nsent - PrefixLen + Chunk))
          /\ IF Chunk = BodyLeft
             THEN /\ writes' = Append(writes, message_bytes)
                  /\ pc' = "recvlen"
             ELSE UNCHANGED <<writes, pc>>
          /\ UNCHANGED outcome
  /\ UNCHANGED <<call, message, message_bytes, reply_length, sock, opened, connects,
                 reads, decoded, backlog, endpoint, codecVars, stream, other, diagnostics>>

\* Only a negative length taken as nonsensical.
Nonsensical_negative(length) == FALSE

\* reply_length <= 0, of a length that is unsigned.
Nonsensical(length) == length = U64Zero

\* recv finds nothing to return and the connection reset: dtnd closed its end
\* leaving bytes of the call unread, or never accepted the connection.
RecvReset == inbuf = <<>> /\ conns[sock].reset

\* reply_length = int.from_bytes(data) and the check of it (client.py:53-57).
ReceivedLength(data) ==
  /\ reads' = Append(reads, data)
  /\ reply_length' = from_bytes(data)
  /\ IF Nonsensical(from_bytes(data))
     THEN Finish(Raise("DataError", <<"Received nonsensical data-length", from_bytes(data)>>),
                 Taken(data))
     ELSE /\ pc' = "recvbuf"
          /\ conns' = Taken(data)
          /\ UNCHANGED outcome

\* data = s.recv(8) (client.py:52): the bytes that have arrived, up to 8; the
\* empty bytes at the end of the stream; ConnectionResetError on a connection
\* that was reset. Then the length and its check.
ReceiveLength ==
  /\ pc = "recvlen"
  /\ CanRecv
  /\ IF RecvReset
     THEN /\ Finish(Raise("ConnectionResetError", <<"recv">>), conns)
          /\ UNCHANGED <<reads, reply_length>>
     ELSE ReceivedLength(recv(inbuf, PrefixLen))
  /\ UNCHANGED <<call, message, message_bytes, sock, opened, connects, nsent, writes,
                 decoded, backlog, endpoint, codecVars, stream, other, diagnostics>>

\* len(data) != reply_length
LengthMismatch(data, length) == U64(Len(data)) # length

\* s.recv(bufsize) makes its buffer of bufsize bytes before it waits for any:
\* a size of 2^63-33 or more raises OverflowError; one of 2^56 or more is
\* beyond every address space and raises MemoryError; one of 2^31 or more is
\* allocated or raises MemoryError, as the memory of the machine has it; a
\* smaller one is taken to be allocated.
RecvBuffer(length) ==
  IF \/ length[1] >= 32768
     \/ length[1] = 32767 /\ length[2] = 65535 /\ length[3] = 65535 /\ length[4] >= 65503
  THEN {"OverflowError"}
  ELSE IF length[1] >= 256
  THEN {"MemoryError"}
  ELSE IF U64Small(length) < 0
  THEN {"MemoryError", "allocated"}
  ELSE {"allocated"}

\* The check of the length of the body (client.py:60-63), deserialize, the
\* check that the reply is a Response (client.py:65-73), and the operation's
\* handling of it.
ReceivedBody(data) ==
  /\ reads' = Append(reads, data)
  /\ IF LengthMismatch(data, reply_length)
     THEN /\ Finish(Raise("DataError",
                     <<"Announced data length and actual length do not match",
                       reply_length, Len(data)>>), Taken(data))
          /\ UNCHANGED decoded
     ELSE /\ decoded' = Append(decoded, data)
          /\ Finish(HandleReply(call.op, data), Taken(data))

\* s.recv(reply_length) (client.py:59), its first half: the buffer of
\* reply_length bytes is made, or the call ends with the error of making it.
\* Nothing of this waits for dtnd.
AllocateBuffer ==
  /\ pc = "recvbuf"
  /\ \E made \in RecvBuffer(reply_length) :
       IF made # "allocated"
       THEN Finish(Raise(made, <<"recv">>), conns)
       ELSE /\ pc' = "recvbody"
            /\ UNCHANGED <<outcome, conns>>
  /\ UNCHANGED <<call, message, message_bytes, reply_length, sock, opened, connects,
                 nsent, writes, reads, decoded, backlog, endpoint, codecVars, stream,
                 other, diagnostics>>

\* data = s.recv(reply_length) (client.py:59), its second half, and all that
\* follows it: the bytes that have arrived, up to reply_length; the empty
\* bytes at the end of the stream; ConnectionResetError on a connection that
\* was reset.
ReceiveBody ==
  /\ pc = "recvbody"
  /\ CanRecv
  /\ IF RecvReset
     THEN /\ Finish(Raise("ConnectionResetError", <<"recv">>), conns)
          /\ UNCHANGED <<reads, decoded>>
     ELSE ReceivedBody(recv(inbuf, IF U64Small(reply_length) < 0
                                   THEN Len(inbuf)
                                   ELSE U64Small(reply_length)))
  /\ UNCHANGED <<call, message, message_bytes, reply_length, sock, opened, connects,
                 nsent, writes, backlog, endpoint, codecVars, stream, other, diagnostics>>

---------------------------------------------------------------------------
(* dtnd, the peer on the connections                                       *)

\* dtnd holds the connection i: it accepted it, has not closed it, and the
\* call has not closed its end. What dtnd does on a connection the call has
\* closed reaches no call.
Live(i) == conns[i].open /\ conns[i].accepted /\ ~conns[i].peerClosed

\* dtnd accepts the oldest connection that waits.
PeerAccepts ==
  /\ backlog # <<>>
  /\ backlog' = Tail(backlog)
  /\ conns' = IF Head(backlog) = 0 THEN conns
              ELSE [conns EXCEPT ![Head(backlog)].accepted = TRUE]
  /\ UNCHANGED <<callVars, endpoint, codecVars, stream, other, diagnostics>>

\* dtnd reads what the call has queued on a connection.
PeerReads ==
  \E i \in DOMAIN conns :
    /\ Live(i)
    /\ conns[i].unread > 0
    /\ conns' = [conns EXCEPT ![i].unread = 0]
    /\ UNCHANGED <<callVars, backlog, endpoint, codecVars, stream, other, diagnostics>>

\* dtnd sends the next bytes of its reply, up to one of the cuts.
PeerSends ==
  \E i \in DOMAIN conns :
    /\ Live(i)
    /\ conns[i].pending # <<>>
    /\ \E c \in Cuts(conns[i].pending) :
         conns' = [conns EXCEPT ![i].inbuf = @ \o SubSeq(conns[i].pending, 1, c),
                                ![i].pending = Drop(@, c),
                                ![i].delivered = @ + c]
    /\ UNCHANGED <<callVars, backlog, endpoint, codecVars, stream, other, diagnostics>>

\* dtnd closes its end of a connection, whatever it had still to send. The
\* connection is reset when bytes of the call are left unread on it.
PeerCloses ==
  \E i \in DOMAIN conns :
    /\ Live(i)
    /\ conns' = [conns EXCEPT ![i].peerClosed = TRUE, ![i].reset = conns[i].unread > 0]
    /\ UNCHANGED <<callVars, backlog, endpoint, codecVars, stream, other, diagnostics>>

\* The connection c after dtnd ended: closed, and reset when bytes of the
\* call are left unread on it or dtnd never accepted it.
Dropped(c) ==
  IF c.connected /\ ~c.peerClosed
  THEN [c EXCEPT !.peerClosed = TRUE, !.reset = c.unread > 0 \/ ~c.accepted]
  ELSE c

\* dtnd ends: its listening socket and its connections are closed, and a
\* later connect is refused.
PeerExits ==
  /\ endpoint = "listening"
  /\ endpoint' = "refused"
  /\ backlog' = <<>>
  /\ conns' = [i \in DOMAIN conns |-> Dropped(conns[i])]
  /\ UNCHANGED <<callVars, codecVars, stream, other, diagnostics>>

Next ==
  \/ Construct
  \/ CreateSocket
  \/ SocketFails
  \/ Connect
  \/ ConnectFails
  \/ SendLength
  \/ SendBody
  \/ ReceiveLength
  \/ AllocateBuffer
  \/ ReceiveBody
  \/ PeerAccepts
  \/ PeerReads
  \/ PeerSends
  \/ PeerCloses
  \/ PeerExits

Spec == Init /\ [][Next]_vars

---------------------------------------------------------------------------
(* a call followed to its end                                              *)

\* The call can take a step: it has not ended; connect, if that is where it
\* stands, has room in the backlog or an error to raise; sendall has room on
\* the connection or a closed one to fail on; recv has bytes, the end of the
\* stream or a reset to return. Making the buffer of recv waits for nothing.
ClientCanStep ==
  \/ pc \in {"idle", "socket", "sendlen", "recvbuf"}
  \/ pc = "connect" /\ (endpoint # "listening" \/ Len(backlog) < BacklogMax)
  \/ pc = "sendbody" /\ (peerClosed \/ Room > 0)
  \/ pc = "recvlen" /\ CanRecv
  \/ pc = "recvbody" /\ CanRecv

\* A step of the call. Every action of the call moves pc or nsent and no
\* step of dtnd does, so that within Next these are the steps Construct,
\* CreateSocket, SocketFails, Connect, ConnectFails, SendLength, SendBody,
\* ReceiveLength, AllocateBuffer and ReceiveBody.
ClientStep ==
  /\ ClientCanStep
  /\ \E p \in {"idle", "socket", "connect", "sendlen", "sendbody", "recvlen",
               "recvbuf", "recvbody", "done"},
        n \in 0..(PrefixLen + Len(message_bytes)) :
       /\ <<p, n>> # <<pc, nsent>>
       /\ pc' = p
       /\ nsent' = n

\* A step of dtnd on a connection it holds: it sends bytes or closes.
PeerStep == PeerSends \/ PeerCloses

\* The calls and replies followed to their end: a call that is sent, one with
\* an invalid argument, one whose request cannot be packed, one whose request
\* is longer than the connection's buffer, one that fetches; a reply that is
\* accepted, a long one, a prefix of 0, a prefix announcing more than is
\* sent, a prefix of 2^40 and a prefix of 2^64-1.
FairCalls ==
  {c \in Calls :
     \/ c.op = "register_unregister" /\ c.register
     \/ c.op = "create_bundle" /\ c.args = PyDict(<< <<<<"d">>, PyOpaque>> >>)
     \/ c.op = "create_bundle" /\ c.args = PyDict(<< <<<<"d">>, PyStr(LongText)>> >>)
     \/ c.op = "fetch_bundle" /\ c.mailbox = PyEid(ipn10) /\ c.bundle_id = PyStr(b1)}
FairStreams ==
  {Framed(Len(Packed(d)), Packed(d)) :
     d \in {WireReply(MT_Response, <<>>, <<>>),
            WireReply(MT_FetchBundleResponse, <<>>, << <<kBundleContent, WireContent(1)>> >>)}}
  \cup {s \in ReplyStreams :
          \/ from_bytes(SubSeq(s, 1, PrefixLen)) = U64Zero
          \/ from_bytes(SubSeq(s, 1, PrefixLen)) = U64(100)
          \/ s[3] = 1
          \/ s[1] = 255}

InitFair ==
  /\ call \in FairCalls
  /\ stream \in FairStreams
  /\ endpoint = "listening"
  /\ backlog \in {<<>>, <<0>>}
  /\ CallIdle
  /\ CodecOff
  /\ Alone
  /\ NoDiagnostics

\* The call runs on while it can: no statement of the operation waits, except
\* connect for room in the backlog, sendall for room on the connection and
\* recv for bytes or the end of the stream. On a connection it holds, dtnd in
\* the end sends bytes of its reply or closes. Nothing makes dtnd accept a
\* connection that waits.
SpecFair ==
  InitFair /\ [][Next]_vars /\ WF_<<pc, nsent>>(ClientStep) /\ WF_vars(PeerStep)

---------------------------------------------------------------------------
(* two calls at once                                                       *)

\* The calls made at the same time, each of them once or twice: a
\* registration, a listing and the creation of a bundle.
PairCalls ==
  {c \in Calls :
     \/ c.op = "register_unregister" /\ c.register /\ c.eid = PyEid(n1svc)
     \/ c.op = "list_bundles" /\ c.mailbox = PyEid(n1svc)
     \/ c.op = "create_bundle" /\ c.args = PyDict(<< <<<<"d">>, PyStr(n1svc)>> >>)}

\* The replies dtnd may give to the request it unpacked as the mapping d: to
\* a listing, one bundle, two, or an error; to a creation, the ID of the
\* bundle or an error; to a registration, success or an error.
RepliesTo(d) ==
  CASE Get(d[2], kType) = PyInt(MT_ListBundles) ->
         {WireReply(MT_ListResponse, <<>>,
                    << <<kBundles, PyList([i \in 1..n |-> PyStr(BundleIdAt(i))])>> >>)
            : n \in 1..MaxBundles}
         \cup {WireReply(MT_Response, boom, <<>>)}
    [] Get(d[2], kType) = PyInt(MT_BundleCreate) ->
         {WireReply(MT_BundleCreateResponse, <<>>, << <<kBundleID, PyStr(b1)>> >>),
          WireReply(MT_BundleCreateResponse, boom, << <<kBundleID, PyStr(b1)>> >>)}
    [] OTHER ->
         {WireReply(MT_Response, e, <<>>) : e \in {<<>>, boom}}

\* The connection c holds a whole framed request, and dtnd has read it and
\* not replied.
Requested(c) ==
  /\ c.unread = 0
  /\ c.answer = PyNone
  /\ Len(c.sent) > PrefixLen
  /\ from_bytes(SubSeq(c.sent, 1, PrefixLen)) = U64(Len(c.sent) - PrefixLen)
  /\ IsOk(unpackb(Drop(c.sent, PrefixLen)))

\* dtnd replies to the request it read on a connection: one of the replies
\* to that request, framed and sent whole.
PeerAnswers ==
  \E i \in DOMAIN conns :
    /\ Live(i)
    /\ Requested(conns[i])
    /\ \E d \in RepliesTo(Val(unpackb(Drop(conns[i].sent, PrefixLen)))) :
         conns' = [conns EXCEPT ![i].answer = d,
                                ![i].inbuf = Framed(Len(Packed(d)), Packed(d)),
                                ![i].delivered = PrefixLen + Len(Packed(d))]
    /\ UNCHANGED <<callVars, backlog, endpoint, codecVars, stream, other, diagnostics>>

\* All a call holds: its arguments, its local variables and its socket.
Frame ==
  [call |-> call, pc |-> pc, message |-> message, message_bytes |-> message_bytes,
   reply_length |-> reply_length, sock |-> sock, opened |-> opened,
   connects |-> connects, nsent |-> nsent, writes |-> writes, reads |-> reads,
   decoded |-> decoded, outcome |-> outcome]

\* The call c before its first step.
IdleFrame(c) ==
  [call |-> c, pc |-> "idle", message |-> PyNone, message_bytes |-> <<>>,
   reply_length |-> U64Zero, sock |-> 0, opened |-> 0, connects |-> 0, nsent |-> 0,
   writes |-> <<>>, reads |-> <<>>, decoded |-> <<>>, outcome |-> NoOutcome]

InitPair ==
  /\ call \in PairCalls
  /\ stream = <<>>
  /\ endpoint = "listening"
  /\ backlog = <<>>
  /\ CallIdle
  /\ CodecOff
  /\ \E c \in PairCalls : other = IdleFrame(c)
  /\ NoDiagnostics

\* The scheduler passes from the call that runs to the other one: each call
\* has its own arguments and local variables, and the module holds no state
\* that a call writes. The sockets, the backlog and dtnd are the same for
\* both.
Switch ==
  /\ other' = Frame
  /\ call' = other.call
  /\ pc' = other.pc
  /\ message' = other.message
  /\ message_bytes' = other.message_bytes
  /\ reply_length' = other.reply_length
  /\ sock' = other.sock
  /\ opened' = other.opened
  /\ connects' = other.connects
  /\ nsent' = other.nsent
  /\ writes' = other.writes
  /\ reads' = other.reads
  /\ decoded' = other.decoded
  /\ outcome' = other.outcome
  /\ UNCHANGED <<peerVars, codecVars, stream, diagnostics>>

NextPair ==
  \/ Construct
  \/ CreateSocket
  \/ SocketFails
  \/ Connect
  \/ ConnectFails
  \/ SendLength
  \/ SendBody
  \/ ReceiveLength
  \/ AllocateBuffer
  \/ ReceiveBody
  \/ PeerAccepts
  \/ PeerReads
  \/ PeerAnswers
  \/ PeerCloses
  \/ PeerExits
  \/ Switch

SpecPair == InitPair /\ [][NextPair]_vars

---------------------------------------------------------------------------
(* messages.py on its own: serialize, packb and deserialize                *)

n1 == <<"d", "t", "n", ":", "/", "/", "n", "1">>
garbage == <<"n", "1">>

\* BundleContent(BundleID, SourceID, DestinationID, Payload)
Content(id, src, dst, payload) ==
  New("BundleContent",
      << <<kBundleID, PyStr(id)>>, <<kSourceID, PyEid(src)>>,
         <<kDestinationID, PyEid(dst)>>, <<kPayload, PyBin(payload)>> >>)

Contents ==
  {Val(Content(id, src, dst, payload)) :
     id \in {b1, <<>>}, src \in {n1svc, DTN_NONE}, dst \in {ipn10, DTN_NONE},
     payload \in {<<0, 255>>, <<>>}}

\* The bundle lists of a FetchAllBundlesResponse: up to MaxBundles contents,
\* each either full or with every field empty.
ContentLists ==
  UNION {[1..n -> {Val(Content(b1, n1svc, ipn10, <<0, 255>>)),
                   Val(Content(<<>>, DTN_NONE, DTN_NONE, <<>>))}] : n \in 0..MaxBundles}

\* What the constructors make of representative arguments.
Constructions ==
  {New("Response", << <<kType, PyInt(MT_Response)>>, <<kError, PyStr(e)>> >>)
     : e \in {<<>>, boom}}
  \cup {New("RegisterUnregister", << <<kType, PyInt(t)>>, <<kEndpointID, PyEid(e)>> >>)
     : t \in {MT_RegisterEID, MT_UnregisterEID}, e \in {n1svc, ipn10, DTN_NONE}}
  \cup {New("BundleCreate", << <<kType, PyInt(MT_BundleCreate)>>, <<kArgs, PyDict(a)>> >>)
     : a \in {<< <<<<"d">>, PyStr(n1svc)>> >>, <<>>}}
  \cup {New("BundleCreateResponse",
            << <<kType, PyInt(MT_BundleCreateResponse)>>, <<kError, PyStr(e)>>,
               <<kBundleID, PyStr(b)>> >>)
     : e \in {<<>>, boom}, b \in {b1, <<>>}}
  \cup {New("ListBundles",
            << <<kType, PyInt(MT_ListBundles)>>, <<kMailbox, PyEid(e)>>,
               <<kNew, PyBool(n)>> >>)
     : e \in {n1svc, ipn10, DTN_NONE}, n \in BOOLEAN}
  \cup {New("ListResponse",
            << <<kType, PyInt(MT_ListResponse)>>, <<kError, PyStr(e)>>,
               <<kBundles, PyList([i \in 1..n |-> PyStr(BundleIdAt(i))])>> >>)
     : e \in {<<>>, boom}, n \in 0..MaxBundles}
  \cup {New("FetchBundle",
            << <<kType, PyInt(MT_FetchBundle)>>, <<kMailbox, PyEid(e)>>,
               <<kBundleID, PyStr(b)>>, <<kRemove, PyBool(r)>> >>)
     : e \in {n1svc, ipn10}, b \in {b1, <<>>}, r \in BOOLEAN}
  \cup {New("FetchBundleResponse",
            << <<kType, PyInt(MT_FetchBundleResponse)>>, <<kError, PyStr(e)>>,
               <<kBundleContent, c>> >>)
     : e \in {<<>>, boom}, c \in Contents}
  \cup {New("FetchAllBundles",
            << <<kType, PyInt(MT_FetchAllBundles)>>, <<kMailbox, PyEid(e)>>,
               <<kNew, PyBool(n)>>, <<kRemove, PyBool(r)>> >>)
     : e \in {n1svc, ipn10}, n \in BOOLEAN, r \in BOOLEAN}
  \cup {New("FetchAllBundlesResponse",
            << <<kType, PyInt(MT_FetchAllBundlesResponse)>>, <<kError, PyStr(e)>>,
               <<kBundles, PyList(l)>> >>)
     : e \in {<<>>, boom}, l \in ContentLists}

\* The constructible messages: those __post_init__ let through.
Messages == {Val(r) : r \in {c \in Constructions : IsOk(c)}}

\* The mappings of the requests, with EID texts that are canonical, none,
\* valid but not canonical, and invalid.
EIDTexts == {n1svc, DTN_NONE, n1, garbage}
RequestDicts ==
  {PyDict(<< <<kType, PyInt(t)>>, <<kEndpointID, PyStr(e)>> >>)
     : t \in {MT_RegisterEID, MT_UnregisterEID}, e \in EIDTexts}
  \cup {PyDict(<< <<kType, PyInt(MT_ListBundles)>>, <<kMailbox, PyStr(e)>>,
                  <<kNew, PyBool(FALSE)>> >>) : e \in EIDTexts}
  \cup {PyDict(<< <<kType, PyInt(MT_FetchBundle)>>, <<kMailbox, PyStr(e)>>,
                  <<kBundleID, PyStr(b1)>>, <<kRemove, PyBool(TRUE)>> >>) : e \in EIDTexts}
  \cup {PyDict(<< <<kType, PyInt(MT_FetchAllBundles)>>, <<kMailbox, PyStr(e)>>,
                  <<kNew, PyBool(TRUE)>>, <<kRemove, PyBool(FALSE)>> >>) : e \in EIDTexts}

\* What a codec run starts from: a message to serialize, or a mapping that
\* the other side packed.
\* d without the key k
Without(d, k) == PyDict(SelectSeq(d[2], LAMBDA pair : pair[1] # k))

\* Mappings of registered variants that lack one of the variant's fields, or
\* whose BundleContent lacks one.
MissingFieldDicts ==
  {Without(WireReply(MT_BundleCreateResponse, <<>>, << <<kBundleID, PyStr(b1)>> >>), k)
     : k \in {kError, kBundleID}}
  \cup {Without(WireReply(MT_ListResponse, <<>>, << <<kBundles, PyList(<<>>)>> >>), k)
     : k \in {kError, kBundles}}
  \cup {Without(WireReply(MT_FetchBundleResponse, <<>>,
                          << <<kBundleContent, WireContent(1)>> >>), k)
     : k \in {kError, kBundleContent}}
  \cup {WireReply(MT_FetchBundleResponse, <<>>,
                  << <<kBundleContent, Without(WireContent(1), k)>> >>)
     : k \in {kBundleID, kSourceID, kDestinationID}}
  \cup {WireReply(MT_FetchAllBundlesResponse, <<>>,
                  << <<kBundles, PyList(<<WireContent(1), Without(WireContent(2), k)>>)>> >>)
     : k \in {kBundleID, kSourceID, kDestinationID}}
  \cup {Without(WireReply(MT_FetchAllBundlesResponse, <<>>, << <<kBundles, PyList(<<>>)>> >>),
                kBundles)}
  \cup {Without(d, k) : d \in {r \in RequestDicts : HasKey(r[2], kMailbox)},
                        k \in {kMailbox, kNew, kRemove, kBundleID}}
  \cup {Without(d, kEndpointID) : d \in {r \in RequestDicts : HasKey(r[2], kEndpointID)}}
  \cup {PyDict(<< <<kType, PyInt(MT_BundleCreate)>> >>)}

\* Mappings whose Type is no MessageType, or that have none.
UntypedDicts ==
  {PyDict(<< <<kType, t>>, <<kError, PyStr(<<>>)>> >>)
     : t \in {PyInt(0), PyInt(MT_FetchAllBundlesResponse + 1), PyInt(999), PyStr(<<"1">>),
              PyNone, PyBool(FALSE), PyFloat(<<64, 4, 0, 0, 0, 0, 0, 0>>),
              PyLong(FALSE, <<0, 0, 0, 1, 0, 0, 0, 1>>)}}
  \cup {PyDict(<<>>), PyDict(<< <<kMailbox, PyStr(n1svc)>>, <<kNew, PyBool(TRUE)>> >>)}

\* The classes deserialize can build.
Variants ==
  {"Response", "RegisterUnregister", "BundleCreate", "BundleCreateResponse", "ListBundles",
   "ListResponse", "FetchBundle", "FetchBundleResponse", "FetchAllBundles",
   "FetchAllBundlesResponse"}

\* Valid values for the fields of cls besides Type: as the caller of the
\* constructor passes them (raw = FALSE), or as unpackb yields them.
SampleArgs(cls, raw) ==
  CASE cls = "Response" -> << <<kError, PyStr(<<>>)>> >>
    [] cls = "RegisterUnregister" ->
         << <<kEndpointID, IF raw THEN PyStr(n1svc) ELSE PyEid(n1svc)>> >>
    [] cls = "BundleCreate" -> << <<kArgs, PyDict(<< <<<<"d">>, PyStr(n1svc)>> >>)>> >>
    [] cls = "BundleCreateResponse" -> << <<kError, PyStr(<<>>)>>, <<kBundleID, PyStr(b1)>> >>
    [] cls = "ListBundles" ->
         << <<kMailbox, IF raw THEN PyStr(n1svc) ELSE PyEid(n1svc)>>, <<kNew, PyBool(TRUE)>> >>
    [] cls = "ListResponse" ->
         << <<kError, PyStr(<<>>)>>, <<kBundles, PyList(<<PyStr(b1)>>)>> >>
    [] cls = "FetchBundle" ->
         << <<kMailbox, IF raw THEN PyStr(n1svc) ELSE PyEid(n1svc)>>,
            <<kBundleID, PyStr(b1)>>, <<kRemove, PyBool(FALSE)>> >>
    [] cls = "FetchBundleResponse" ->
         << <<kError, PyStr(<<>>)>>,
            <<kBundleContent,
              IF raw THEN WireContent(1) ELSE Val(Content(b1, n1svc, ipn10, <<0, 255>>))>> >>
    [] cls = "FetchAllBundles" ->
         << <<kMailbox, IF raw THEN PyStr(n1svc) ELSE PyEid(n1svc)>>,
            <<kNew, PyBool(FALSE)>>, <<kRemove, PyBool(TRUE)>> >>
    [] cls = "FetchAllBundlesResponse" ->
         << <<kError, PyStr(<<>>)>>,
            <<kBundles,
              PyList(<<IF raw THEN WireContent(1)
                       ELSE Val(Content(b1, n1svc, ipn10, <<0, 255>>))>>)>> >>

\* The values of Type tried on each class: every MessageType and one below
\* and one above.
Tags == 0..(MT_FetchAllBundlesResponse + 1)

\* What a codec run starts from: a message to serialize, a mapping that the
\* other side packed, or a class to construct, by cls(**data) or by
\* cls.from_dict(data).
\* The class the specification registers for each value of Type.
SpecVariant(t) ==
  CASE t = 1 -> "Response"
    [] t \in {2, 3} -> "RegisterUnregister"
    [] t = 4 -> "BundleCreate"
    [] t = 5 -> "BundleCreateResponse"
    [] t = 6 -> "ListBundles"
    [] t = 7 -> "ListResponse"
    [] t = 8 -> "FetchBundle"
    [] t = 9 -> "FetchBundleResponse"
    [] t = 10 -> "FetchAllBundles"
    [] t = 11 -> "FetchAllBundlesResponse"

\* A valid mapping of every MessageType, the variants named in the table of
\* the specification, and a Response whose Type is True or the float 1.0.
TypedDicts ==
  {PyDict(<< <<kType, PyInt(t)>> >> \o SampleArgs(SpecVariant(t), TRUE))
     : t \in MessageTypeValues}
  \cup {PyDict(<< <<kType, PyBool(TRUE)>>, <<kError, PyStr(<<>>)>> >>),
         PyDict(<< <<kType, PyFloat(<<63, 240, 0, 0, 0, 0, 0, 0>>)>>,
                   <<kError, PyStr(<<>>)>> >>)}

\* Replies as bytes that no packb of this library writes: a Type that comes
\* twice (12, then 1), a Type in the formats int 8, float 32, uint 64, int 16
\* (-200), int 64 (-2^63) and float 64 (2.5), and a map 32 whose Error is a
\* str 32 of a tab and U+1F600.
TypeKey == Enc(PyStr(kType))
EmptyErrorPair == Enc(PyStr(kError)) \o Enc(PyStr(<<>>))
RawReplies ==
  {<<131>> \o TypeKey \o <<12>> \o EmptyErrorPair \o TypeKey \o <<1>>,
   <<130>> \o TypeKey \o <<208, 1>> \o EmptyErrorPair,
   <<130>> \o TypeKey \o <<202, 63, 128, 0, 0>> \o EmptyErrorPair,
   <<130>> \o TypeKey \o <<207, 0, 0, 0, 0, 0, 0, 0, 1>> \o EmptyErrorPair,
   <<130>> \o TypeKey \o <<209, 255, 56>> \o EmptyErrorPair,
   <<130>> \o TypeKey \o <<211, 128, 0, 0, 0, 0, 0, 0, 0>> \o EmptyErrorPair,
   <<130>> \o TypeKey \o <<203, 64, 4, 0, 0, 0, 0, 0, 0>> \o EmptyErrorPair,
   <<223, 0, 0, 0, 2>> \o TypeKey \o <<1>> \o Enc(PyStr(kError))
     \o <<219, 0, 0, 0, 5, 9, 240, 159, 152, 128>>}

CodecInputs ==
  {<<"message", m>> : m \in Messages}
  \cup {<<"wire", d>> : d \in ReplyDicts \cup RequestDicts \cup MissingFieldDicts
                               \cup UntypedDicts \cup TypedDicts}
  \cup {<<"bytes", bs>> : bs \in RawReplies}
  \cup {<<"construct", cls, raw, <<<<kType, PyInt(t)>>>> \o SampleArgs(cls, raw)>>
          : cls \in Variants, raw \in BOOLEAN, t \in Tags}

InitCodec ==
  /\ call = [op |-> "none"]
  /\ endpoint = "listening"
  /\ backlog = <<>>
  /\ CallIdle
  /\ codecPc = "start"
  /\ codecIn \in CodecInputs
  /\ codecWire = NoOutcome
  /\ codecOut = NoOutcome
  /\ codecCtor = "none"
  /\ stream = <<>>
  /\ Alone
  /\ NoDiagnostics

\* serialize(message)
CodecSerialize ==
  /\ codecPc = "start"
  /\ codecIn[1] = "message"
  /\ codecWire' = serialize(codecIn[2])
  /\ codecPc' = "wire"
  /\ UNCHANGED <<callVars, peerVars, codecIn, codecOut, codecCtor, stream, other, diagnostics>>

\* packb(mapping), by the other side
CodecPack ==
  /\ codecPc = "start"
  /\ codecIn[1] = "wire"
  /\ codecWire' = packb(codecIn[2])
  /\ codecPc' = "wire"
  /\ UNCHANGED <<callVars, peerVars, codecIn, codecOut, codecCtor, stream, other, diagnostics>>

\* The bytes of a reply, as the other side wrote them
CodecReceive ==
  /\ codecPc = "start"
  /\ codecIn[1] = "bytes"
  /\ codecWire' = Ok(PyBin(codecIn[2]))
  /\ codecPc' = "wire"
  /\ UNCHANGED <<callVars, peerVars, codecIn, codecOut, codecCtor, stream, other, diagnostics>>

\* deserialize(serialized)
CodecDeserialize ==
  /\ codecPc = "wire"
  /\ IsOk(codecWire)
  /\ codecOut' = deserialize(Val(codecWire)[2])
  /\ codecCtor' = constructor_called(Val(codecWire)[2])
  /\ codecPc' = "done"
  /\ UNCHANGED <<callVars, peerVars, codecIn, codecWire, stream, other, diagnostics>>

\* cls(**data), or cls.from_dict(data)
CodecConstruct ==
  /\ codecPc = "start"
  /\ codecIn[1] = "construct"
  /\ codecOut' = IF codecIn[3] THEN from_dict(codecIn[2], codecIn[4])
                 ELSE New(codecIn[2], codecIn[4])
  /\ codecCtor' = codecIn[2]
  /\ codecPc' = "done"
  /\ UNCHANGED <<callVars, peerVars, codecIn, codecWire, stream, other, diagnostics>>

NextCodec ==
  \/ CodecSerialize
  \/ CodecPack
  \/ CodecReceive
  \/ CodecDeserialize
  \/ CodecConstruct

SpecCodec == InitCodec /\ [][NextCodec]_vars

---------------------------------------------------------------------------
(* eid.py on its own: EID(text), the factories, node() and service()       *)

\* Texts with the dtn scheme, with none, and with no scheme; some hold a
\* newline, a tab, U+007F or U+0080.
DtnTexts ==
  {<<"d", "t", "n", ":", "n", "o", "n", "e">>,
   <<"d", "t", "n", ":", "/", "/", "n", "o", "n", "e">>,
   <<"d", "t", "n", ":", "/", "/", "n", "o", "n", "e", "/">>,
   <<"d", "t", "n", ":", "/", "/", "n", "o", "n", "e", "/", "s">>,
   <<"d", "t", "n", ":", "/", "/", "n", "o", "n", "e", "/", "a", "/", "b">>,
   <<"d", "t", "n", ":", "/", "/", "n", "1">>,
   <<"d", "t", "n", ":", "/", "/", "n", "1", "/">>,
   <<"d", "t", "n", ":", "/", "/", "n", "1", "/", "s">>,
   <<"d", "t", "n", ":", "/", "/", "/", "s", "v", "c">>,
   <<"d", "t", "n", ":", "/", "/", "/">>,
   <<"d", "t", "n", ":", "/", "/">>,
   <<"d", "t", "n", ":", "/", "/", "n", "1", "/", "s", "/", "t">>,
   <<"d", "t", "n", ":", "/", "/", "n", " ", "1", "/", "s">>,
   <<"d", "t", "n", ":", "/", "/", "n", "1", "/", EAcute>>,
   <<"d", "t", "n", ":", "/", "/", EAcute, "/", "s">>,
   <<"d", "t", "n", ":", "n", "1">>,
   <<"D", "T", "N", ":", "/", "/", "n", "1">>,
   <<>>,
   <<"n", "1">>,
   <<"h", "t", "t", "p", ":", "/", "/", "x">>,
   <<"d", "t", "n", ":", "/", "/", "n", "o", "d", "e", "/">>,
   <<"d", "t", "n", ":", "/", "/", "n", "o", "n", "e", "e", "/", "s">>,
   <<"d", "t", "n", ":", "/", "/", "n", "1", "/", "n", "o", "n", "e">>,
   <<"d", "t", "n", ":", "n", "o", "n", "e", "/">>,
   <<"d", "t", "n", ":", "/", "/", "n", "1", CharOf(10)>>,
   <<"d", "t", "n", ":", "/", "/", "n", CharOf(10), "1", "/", "s">>,
   <<"d", "t", "n", ":", "/", "/", "n", "1", "/", CharOf(9), CharOf(127)>>,
   <<"d", "t", "n", ":", "/", "/", "n", "1", "/", CharOf(128)>>}

\* What stands on either side of the dot of an ipn text; among them a tab,
\* the Arabic-Indic digit one and a newline, and U+001C before a 1.
IpnParts ==
  {<<>>, <<"0">>, <<"1">>, <<"0", "1">>, <<"-", "1">>, <<"+", "1">>, <<"a">>, <<"1", "_", "0">>,
   <<" ", "1">>, <<"1", "2">>, <<"5">>, <<CharOf(9), CharOf(1633), CharOf(10)>>,
   <<CharOf(28), "1">>}

\* Texts with the ipn scheme; the last three are written in Kawi digits
\* (U+11F50..) and Nag Mundari digits (U+1E4F0..).
IpnTexts ==
  {IPN_PREFIX \o a \o <<".">> \o b : a \in IpnParts, b \in IpnParts}
  \cup {<<"i", "p", "n", ":", "/", "/", "1", ".", "0">>,
         <<"i", "p", "n", ":", "1">>,
         <<"i", "p", "n", ":", "1", ".", "2", ".", "3">>,
         <<"i", "p", "n", ":", "a", ".", "b">>,
         <<"i", "p", "n", ":", "0", ".", "5">>,
         <<"i", "p", "n", ":", "1", ".", "0">>,
         <<"i", "p", "n", ":">>,
         <<"i", "p", "n", ":", ".">>,
         <<"i", "p", "n", ":", "/", "1", ".", "0">>,
         <<"i", "p", "n", ":", "1", ".", "0", ".">>,
         <<"i", "p", "n", ":", "1", ".", "/", "/", "2">>,
         <<"i", "p", "n", ":", "4", "2", "9", "4", "9", "6", "7", "2", "9", "6", ".",
           "0", "0", "9", "9", "9", "9", "9", "9", "9", "9", "9", "9">>,
         <<"i", "p", "n", ":", "1", ".", CharOf(73553)>>,
         <<"i", "p", "n", ":", CharOf(124149), ".", "0">>,
         <<"i", "p", "n", ":", CharOf(73561), CharOf(73552), ".", CharOf(124144)>>}

\* The numbers EID.ipn is called with go up to MaxIpn.
MaxIpn == 2

\* What an EID run starts from: a text to parse, or the arguments of a
\* factory.
EIDInputs ==
  {<<"parse", t>> : t \in DtnTexts \cup IpnTexts}
  \cup {<<"dtn", node, service>>
          : node \in {<<"n", "o", "n", "e">>, <<"n", "1">>, <<>>, <<"n", "/", "1">>, <<"n", " ", "1">>},
            service \in {PyNone, PyStr(<<>>), PyStr(<<"s">>), PyStr(<<"n", "o", "n", "e">>),
                         PyStr(<<"a", "/", "b">>), PyStr(<<EAcute>>)}}
  \cup {<<"ipn", n, m>> : n \in (-1)..MaxIpn, m \in (-1)..MaxIpn}
  \cup {<<"eid_none">>}

InitEID ==
  /\ call = [op |-> "none"]
  /\ endpoint = "listening"
  /\ backlog = <<>>
  /\ CallIdle
  /\ codecPc = "start"
  /\ codecIn \in EIDInputs
  /\ codecWire = NoOutcome
  /\ codecOut = NoOutcome
  /\ codecCtor = "none"
  /\ stream = <<>>
  /\ Alone
  /\ NoDiagnostics

\* EID(text)
EIDParse ==
  /\ codecPc = "start"
  /\ codecIn[1] = "parse"
  /\ codecWire' = EID(PyStr(codecIn[2]))
  /\ codecPc' = "parsed"
  /\ UNCHANGED <<callVars, peerVars, codecIn, codecOut, codecCtor, stream, other, diagnostics>>

\* EID.dtn(node, service), EID.ipn(node_number, service_number), EID.none()
EIDFactory ==
  /\ codecPc = "start"
  /\ codecIn[1] \in {"dtn", "ipn", "eid_none"}
  /\ codecWire' = CASE codecIn[1] = "dtn" -> EID_dtn(codecIn[2], codecIn[3])
                    [] codecIn[1] = "ipn" -> EID_ipn(codecIn[2], codecIn[3])
                    [] codecIn[1] = "eid_none" -> EID_none
  /\ codecPc' = "parsed"
  /\ UNCHANGED <<callVars, peerVars, codecIn, codecOut, codecCtor, stream, other, diagnostics>>

\* e.node() and e.service() of the EID obtained, and EID(e) of its text.
EIDReparse ==
  /\ codecPc = "parsed"
  /\ IsOk(codecWire)
  /\ codecCtor' = <<EID_node(Val(codecWire)), EID_service(Val(codecWire))>>
  /\ codecOut' = EID(PyStr(Text(Val(codecWire))))
  /\ codecPc' = "done"
  /\ UNCHANGED <<callVars, peerVars, codecIn, codecWire, stream, other, diagnostics>>

NextEID ==
  \/ EIDParse
  \/ EIDFactory
  \/ EIDReparse

SpecEID == InitEID /\ [][NextEID]_vars

---------------------------------------------------------------------------
(* The properties                                                          *)

\* The phase of a call: 0 before the request exists, 1 while the request is
\* being sent (AwaitingRequestSent), 2 while the reply is being received
\* (AwaitingReplyReceived), 3 when the call is over (Done).
Phase ==
  CASE pc = "idle" -> 0
    [] pc \in {"socket", "connect", "sendlen", "sendbody"} -> 1
    [] pc \in {"recvlen", "recvbuf", "recvbody"} -> 2
    [] pc = "done" -> 3

\* What deserialize makes of the reply body the call decoded.
DecodedReply == deserialize(decoded[1])
\* The mapping dtnd packed as that body.
DecodedWire == Val(unpackb(decoded[1]))

\* The variant the specification names for each operation.
SpecExpected(op) ==
  CASE op = "register_unregister" -> "Response"
    [] op = "create_bundle"       -> "BundleCreateResponse"
    [] op = "list_bundles"        -> "ListResponse"
    [] op = "fetch_bundle"        -> "FetchBundleResponse"
    [] op = "fetch_all_bundles"   -> "FetchAllBundlesResponse"

\* The reply r carries no error text.
EmptyError(r) == isinstance(r, "Response") => ~Truthy(Attr(r, kError))

IsDataError(r) == IsRaise(r) /\ Exc(r) = "DataError"

\* The frame of the call's request: the prefix, then the body.
RequestFrame == to_bytes(U64(Len(message_bytes))) \o message_bytes

C1_State ==
  /\ opened <= 1
  /\ connects <= opened
  /\ Len(conns) = opened
  /\ Len(writes) <= 2
  /\ Len(writes) >= 1 => Len(writes[1]) = PrefixLen
  /\ nsent <= PrefixLen + Len(message_bytes)
  /\ Len(writes) = 2 <=> (message_bytes # <<>> /\ nsent = PrefixLen + Len(message_bytes))
  /\ reads # <<>> => Len(writes) = 2
  /\ Len(reads) <= 2
  /\ Phase = 2 => opened = 1 /\ connects = 1 /\ Len(writes) = 2
  /\ (pc = "done" /\ (IsOk(outcome) \/ reads # <<>>)) =>
       opened = 1 /\ connects = 1 /\ Len(writes) = 2
  /\ (pc = "done" /\ IsOk(outcome)) => Len(reads) = 2 /\ Len(decoded) = 1
  /\ (pc = "done" /\ Len(writes) < 2) => IsRaise(outcome) /\ reads = <<>>

C1_Step ==
  /\ Phase' >= Phase
  /\ Phase' = 1 => Phase \in {0, 1}
  /\ Phase' = 2 => Phase \in {1, 2}
  /\ reads' # reads => Len(writes) = 2 /\ writes' = writes /\ nsent' = nsent
  /\ pc = "done" =>
       /\ UNCHANGED <<pc, sock, opened, connects, nsent, writes, reads, decoded, outcome>>
       /\ Len(conns') = Len(conns)
       /\ \A i \in DOMAIN conns : conns'[i].sent = conns[i].sent /\ ~conns'[i].open

C3_ErrorFirst ==
  (/\ pc = "done"
   /\ decoded # <<>>
   /\ IsOk(DecodedReply)
   /\ isinstance(Val(DecodedReply), "Response")
   /\ Truthy(Attr(Val(DecodedReply), kError)))
  => outcome = Raise("DTNDError", <<"error", Attr(Val(DecodedReply), kError)>>)

\* C3 witness: fetch_bundle got a ListResponse that carries an error text
\* and raised DTNDError.
C3_Witness ==
  /\ pc = "done"
  /\ call.op = "fetch_bundle"
  /\ decoded # <<>>
  /\ IsOk(DecodedReply)
  /\ ClassOf(Val(DecodedReply)) = "ListResponse"
  /\ outcome = Raise("DTNDError", <<"error", PyStr(boom)>>)

\* C4 as stated: a call returns normally only if the reply is exactly the
\* variant its operation expects, register_unregister included, and a reply
\* of any other variant without error text raises DataError.
C4_ExactVariant ==
  pc = "done" =>
    /\ IsOk(outcome) =>
         /\ decoded # <<>>
         /\ IsOk(DecodedReply)
         /\ ClassOf(Val(DecodedReply)) = SpecExpected(call.op)
    /\ (/\ decoded # <<>>
        /\ IsOk(DecodedReply)
        /\ EmptyError(Val(DecodedReply))
        /\ ClassOf(Val(DecodedReply)) # SpecExpected(call.op))
       => IsDataError(outcome)

\* The content bc holds what the mapping w holds, field by field, and the
\* default where w has no such key.
SameContent(bc, w) ==
  /\ Tag(bc) = "obj"
  /\ ClassOf(bc) = "BundleContent"
  /\ Tag(w) = "dict"
  /\ \A i \in 1..Len(Fields("BundleContent")) :
       IF HasKey(w[2], Fields("BundleContent")[i])
       THEN PyEq(Attr(bc, Fields("BundleContent")[i]), Get(w[2], Fields("BundleContent")[i]))
       ELSE Attr(bc, Fields("BundleContent")[i]) = PyBin(<<>>)

\* The value v an operation returned is the payload of the mapping w.
SamePayload(op, v, w) ==
  CASE op = "register_unregister" -> v = PyNone
    [] op = "create_bundle"       -> v = Get(w[2], kBundleID)
    [] op = "list_bundles"        -> v = Get(w[2], kBundles)
    [] op = "fetch_bundle"        -> SameContent(v, Get(w[2], kBundleContent))
    [] op = "fetch_all_bundles"   ->
         /\ Tag(v) = "list"
         /\ Len(v[2]) = Len(Get(w[2], kBundles)[2])
         /\ \A i \in 1..Len(v[2]) : SameContent(v[2][i], Get(w[2], kBundles)[2][i])

\* The discriminant of the variant the specification names for each
\* operation.
SpecExpectedType(op) ==
  CASE op = "register_unregister" -> MT_Response
    [] op = "create_bundle"       -> MT_BundleCreateResponse
    [] op = "list_bundles"        -> MT_ListResponse
    [] op = "fetch_bundle"        -> MT_FetchBundleResponse
    [] op = "fetch_all_bundles"   -> MT_FetchAllBundlesResponse

\* The replies of dtnd that are the variant the operation op expects, with an
\* empty error field and a bundle ID that is not empty; a field that holds
\* an empty value may be left out of the mapping.
ExpectedReplies(op) ==
  {d \in ReplyDicts :
     /\ HasKey(d[2], kType)
     /\ Get(d[2], kType) = PyInt(SpecExpectedType(op))
     /\ HasKey(d[2], kError)
     /\ Get(d[2], kError) = PyStr(<<>>)
     /\ HasKey(d[2], kBundleID) => Truthy(Get(d[2], kBundleID))}

\* C5 as stated: when dtnd replies with the variant the operation expects
\* and an empty error field, the operation returns the payload dtnd sent: the
\* same bundle IDs in the same order, the same bundle ID, the same
\* content(s); register_unregister returns None.
C5_PayloadUnchanged ==
  (/\ pc = "done"
   /\ decoded # <<>>
   /\ IsOk(unpackb(decoded[1]))
   /\ DecodedWire \in ExpectedReplies(call.op))
  => /\ IsOk(outcome)
     /\ SamePayload(call.op, Val(outcome), DecodedWire)

\* a is below b, of two lengths held as limbs.
RECURSIVE U64Less(_, _)
U64Less(a, b) ==
  IF a = <<>> THEN FALSE
  ELSE IF Head(a) # Head(b) THEN Head(a) < Head(b)
  ELSE U64Less(Tail(a), Tail(b))

\* C6 as stated: when the call has read a prefix announcing N and dtnd closed
\* after k < N bytes of the body, the call ends with DataError naming N and
\* the length of what it read, and nothing is passed to deserialize.
C6_ShortRead ==
  (/\ pc = "done"
   /\ reads # <<>>
   /\ Len(reads[1]) = PrefixLen
   /\ peerClosed
   /\ delivered >= PrefixLen
   /\ U64Less(U64(delivered - PrefixLen), reply_length))
  => /\ Len(reads) = 2
     /\ outcome = Raise("DataError",
                        <<"Announced data length and actual length do not match",
                          reply_length, Len(reads[2])>>)
     /\ decoded = <<>>

\* C7: a reply prefix that reads as 0 ends the call with DataError
\* (nonsensical data-length); no body read follows and nothing is passed to
\* deserialize.
C7_ZeroLength ==
  (pc = "done" /\ reads # <<>> /\ from_bytes(reads[1]) = U64Zero)
  => /\ outcome = Raise("DataError", <<"Received nonsensical data-length", U64Zero>>)
     /\ Len(reads) = 1
     /\ decoded = <<>>

\* C7 witness: the call read eight zero bytes and raised, with bytes of a
\* body left unread.
C7_Witness ==
  /\ pc = "done"
  /\ Len(reads) = 1
  /\ reads[1] = [i \in 1..PrefixLen |-> 0]
  /\ inbuf # <<>>
  /\ IsDataError(outcome)

\* C8: a call that is over holds no open socket, by whichever way it ended;
\* the call makes one socket at most, which is open from socket() to the end
\* of the call and closed from then on.
C8_Closed ==
  /\ Len(conns) = opened
  /\ pc = "done" => \A i \in DOMAIN conns : ~conns[i].open
  /\ sock # 0 => (conns[sock].open <=> pc # "done")
  /\ sockOpen =>
       /\ opened = 1
       /\ pc \in {"connect", "sendlen", "sendbody", "recvlen", "recvbuf", "recvbody"}

\* C8 witness: a call that connected, received a body deserialize raised
\* on, and ended with its socket closed.
C8_Witness ==
  /\ pc = "done"
  /\ opened = 1
  /\ decoded # <<>>
  /\ IsRaise(DecodedReply)
  /\ IsRaise(outcome)
  /\ ~conns[sock].open

\* C9 as stated: serialize succeeds on every constructible message, and
\* deserialize of the result succeeds and equals the message.
C9_RoundTrip ==
  /\ (codecIn[1] = "message" /\ codecPc \in {"wire", "done"}) => IsOk(codecWire)
  /\ (codecIn[1] = "message" /\ codecPc = "done") =>
       /\ IsOk(codecOut)
       /\ PyEq(Val(codecOut), codecIn[2])

\* The key of the EID field of the request of type t.
EIDKey(t) == IF t \in {MT_RegisterEID, MT_UnregisterEID} THEN kEndpointID ELSE kMailbox
RequestTypes ==
  {MT_RegisterEID, MT_UnregisterEID, MT_ListBundles, MT_FetchBundle, MT_FetchAllBundles}
\* v is an EID whose text is in canonical form.
CanonicalEID(v) == Tag(v) = "eid" /\ _normalize(v[2]) = Ok(PyStr(v[2]))
\* The mapping d is a request whose EID field is 'dtn:none' or no EID text.
BadRequiredEID(d) ==
  /\ Tag(d) = "dict"
  /\ HasKey(d[2], kType)
  /\ Tag(Get(d[2], kType)) = "int"
  /\ Get(d[2], kType)[2] \in RequestTypes
  /\ HasKey(d[2], EIDKey(Get(d[2], kType)[2]))
  /\ IsText(Get(d[2], EIDKey(Get(d[2], kType)[2])))
  /\ \/ Text(Get(d[2], EIDKey(Get(d[2], kType)[2]))) = DTN_NONE
     \/ IsRaise(_normalize(Text(Get(d[2], EIDKey(Get(d[2], kType)[2])))))

\* C10 as stated: the EID field of every request deserialize returns is a
\* canonical EID, and a mapping whose EID field is 'dtn:none' or no valid
\* EID text yields no message.
C10_EIDParsed ==
  (codecIn[1] = "wire" /\ codecPc = "done") =>
    /\ (IsOk(codecOut) /\ ClassOf(Val(codecOut)) = "RegisterUnregister") =>
         CanonicalEID(Attr(Val(codecOut), kEndpointID))
    /\ (IsOk(codecOut)
        /\ ClassOf(Val(codecOut)) \in {"ListBundles", "FetchBundle", "FetchAllBundles"}) =>
         CanonicalEID(Attr(Val(codecOut), kMailbox))
    /\ BadRequiredEID(codecIn[2]) => IsRaise(codecOut)

\* The mapping w of a BundleContent lacks a field without default.
ContentLacksField(w) ==
  Tag(w) = "dict" /\ \E k \in {kBundleID, kSourceID, kDestinationID} : ~HasKey(w[2], k)

\* The mapping d has a registered Type and lacks a field of that variant, or
\* a BundleContent in it lacks one.
LacksRequiredField(d) ==
  /\ Tag(d) = "dict"
  /\ HasKey(d[2], kType)
  /\ Tag(Get(d[2], kType)) = "int"
  /\ Get(d[2], kType)[2] \in 1..11
  /\ \/ \E i \in 1..Len(Fields(SpecVariant(Get(d[2], kType)[2]))) :
          ~HasKey(d[2], Fields(SpecVariant(Get(d[2], kType)[2]))[i])
     \/ /\ Get(d[2], kType)[2] = 9
        /\ HasKey(d[2], kBundleContent)
        /\ ContentLacksField(Get(d[2], kBundleContent))
     \/ /\ Get(d[2], kType)[2] = 11
        /\ HasKey(d[2], kBundles)
        /\ Tag(Get(d[2], kBundles)) = "list"
        /\ \E i \in 1..Len(Get(d[2], kBundles)[2]) :
             ContentLacksField(Get(d[2], kBundles)[2][i])

IsInvalidMessageError(r) == IsRaise(r) /\ Exc(r) = "InvalidMessageError"

\* C11 as stated: deserialize of a mapping with a registered Type that
\* lacks a required field raises InvalidMessageError and nothing else, and
\* returns no message.
C11_MissingField ==
  (codecIn[1] = "wire" /\ codecPc = "done" /\ LacksRequiredField(codecIn[2]))
  => IsInvalidMessageError(codecOut)

\* The mapping a codec run decodes: the one the other side packed, or the
\* one its bytes hold.
WireMapping == IF codecIn[1] = "bytes" THEN Val(unpackb(codecIn[2])) ELSE codecIn[2]

\* The mapping d has no Type.
NoType(d) == Tag(d) = "dict" /\ ~HasKey(d[2], kType)
\* The mapping d has a Type that is none of 1..11: no number that equals one
\* of them (True and 1.0 equal 1).
UnknownType(d) ==
  /\ Tag(d) = "dict"
  /\ HasKey(d[2], kType)
  /\ ~(IsIntLike(Get(d[2], kType)) /\ IntOf(Get(d[2], kType)) \in 1..11)

\* C12: deserialize of a mapping without Type raises InvalidMessageError
\* "Message missing 'Type' field"; of a mapping whose Type is none of 1..11
\* it raises InvalidMessageError "Unknown MessageType ID", a different text;
\* in both cases no from_dict is called and no message is returned.
C12_Discriminant ==
  (codecIn[1] \in {"wire", "bytes"} /\ codecPc = "done") =>
    /\ NoType(WireMapping) =>
         /\ codecOut = Raise("InvalidMessageError", <<"Message missing 'Type' field">>)
         /\ codecCtor = "none"
    /\ UnknownType(WireMapping) =>
         /\ codecOut = Raise("InvalidMessageError", <<"Unknown MessageType ID">>)
         /\ codecOut # Raise("InvalidMessageError", <<"Message missing 'Type' field">>)
         /\ codecCtor = "none"

\* C12 witness: deserialize ended on a mapping whose Type is 999.
C12_Witness ==
  /\ codecPc = "done"
  /\ codecIn[1] = "wire"
  /\ HasKey(codecIn[2][2], kType)
  /\ Get(codecIn[2][2], kType) = PyInt(999)
  /\ IsInvalidMessageError(codecOut)

\* The values of Type the specification allows each class.
AllowedTags(cls) == {t \in 1..11 : SpecVariant(t) = cls}

\* C13: constructing a class, by its constructor or by its from_dict, with
\* a Type outside the values allowed for it raises InvalidMessageError, so
\* every message that exists, constructed or deserialized, carries an
\* allowed Type (True and 1.0, which Python holds equal to 1, count as 1).
C13_TagMatches ==
  /\ (codecIn[1] = "construct" /\ codecPc = "done") =>
       /\ IsOk(codecOut) <=> codecIn[4][1][2][2] \in AllowedTags(codecIn[2])
       /\ ~IsOk(codecOut) => IsInvalidMessageError(codecOut)
       /\ IsOk(codecOut) =>
            /\ ClassOf(Val(codecOut)) = codecIn[2]
            /\ Attr(Val(codecOut), kType) = codecIn[4][1][2]
  /\ (codecIn[1] \in {"wire", "bytes", "message"} /\ codecPc = "done" /\ IsOk(codecOut)) =>
       /\ IsIntLike(Attr(Val(codecOut), kType))
       /\ IntOf(Attr(Val(codecOut), kType)) \in AllowedTags(ClassOf(Val(codecOut)))
  /\ codecIn[1] = "message" =>
       Attr(codecIn[2], kType)[2] \in AllowedTags(ClassOf(codecIn[2]))

\* C13 witness: BundleCreateResponse.from_dict with the Type of Response
\* raised InvalidMessageError.
C13_Witness ==
  /\ codecPc = "done"
  /\ codecIn[1] = "construct"
  /\ codecIn[2] = "BundleCreateResponse"
  /\ codecIn[3]
  /\ codecIn[4][1][2] = PyInt(MT_Response)
  /\ IsInvalidMessageError(codecOut)

\* The arguments of the call c break a required-field rule: a none EID, an
\* empty args mapping, an empty bundle ID.
InvalidArgs(c) ==
  CASE c.op = "register_unregister" -> c.eid = PyEid(DTN_NONE)
    [] c.op = "create_bundle"       -> c.args = PyDict(<<>>)
    [] c.op = "list_bundles"        -> c.mailbox = PyEid(DTN_NONE)
    [] c.op = "fetch_bundle"        ->
         c.mailbox = PyEid(DTN_NONE) \/ c.bundle_id = PyStr(<<>>)
    [] c.op = "fetch_all_bundles"   -> c.mailbox = PyEid(DTN_NONE)

C14_State ==
  InvalidArgs(call) =>
    /\ pc \in {"idle", "done"}
    /\ pc = "done" => IsInvalidMessageError(outcome)
    /\ message = PyNone
    /\ opened = 0
    /\ connects = 0
    /\ ~sockOpen
    /\ writes = <<>>
    /\ reads = <<>>

\* C14: an operation called with a none EID, an empty args mapping or an
\* empty bundle ID goes from its start straight to its end, raising
\* InvalidMessageError: at no time has it built a message, opened a
\* socket, connected, written or read.
C14_RejectedBeforeTransport ==
  [](C14_State) /\ [][(InvalidArgs(call) /\ pc = "idle") => pc' \in {"idle", "done"}]_vars

\* C14 witness: fetch_bundle with an empty bundle ID ended with
\* InvalidMessageError and no socket.
C14_Witness ==
  /\ pc = "done"
  /\ call.op = "fetch_bundle"
  /\ call.bundle_id = PyStr(<<>>)
  /\ call.mailbox # PyEid(DTN_NONE)
  /\ IsInvalidMessageError(outcome)
  /\ opened = 0

IsEIDError(r) == IsRaise(r) /\ Exc(r) = "EIDError"

\* The text t is dtn://none, alone or followed by / and a service.
NoneNodeText(t) ==
  /\ startswith(t, DTN_PREFIX \o <<"n", "o", "n", "e">>)
  /\ Len(t) > Len(DTN_PREFIX) + 4 => t[Len(DTN_PREFIX) + 5] = "/"

\* C15 as stated: EID('dtn://none'), EID('dtn://none/'),
\* EID('dtn://none/<service>') and EID.dtn('none', s) raise EIDError, no EID
\* obtained has the dtn:// form with the node none, and EID('dtn:none') is
\* dtn:none.
C15_NoneNodeRejected ==
  codecPc \in {"parsed", "done"} =>
    /\ (codecIn[1] = "parse" /\ NoneNodeText(codecIn[2])) => IsEIDError(codecWire)
    /\ (codecIn[1] = "dtn" /\ codecIn[2] = <<"n", "o", "n", "e">>) => IsEIDError(codecWire)
    /\ IsOk(codecWire) => ~NoneNodeText(Text(Val(codecWire)))
    /\ (codecIn[1] = "parse" /\ codecIn[2] = DTN_NONE) => codecWire = Ok(PyEid(DTN_NONE))

\* The text t has one of the three canonical forms: dtn:none, dtn://node/
\* with or without a service after it, ipn:N.S with plain numbers.
CanonicalForm(t) ==
  \/ t = DTN_NONE
  \/ /\ startswith(t, DTN_PREFIX)
     /\ Find(Drop(t, Len(DTN_PREFIX)), "/") > 0
  \/ /\ startswith(t, IPN_PREFIX)
     /\ Len(split(Drop(t, Len(IPN_PREFIX)), ".")) = 2
     /\ \A i \in (Len(IPN_PREFIX) + 1)..Len(t) : t[i] \in DigitSet \cup {"."}

\* C16: every EID obtained from EID(text) or from a factory has one of the
\* three canonical forms, and EID of its text succeeds and is the same EID;
\* 'dtn://node/' and 'dtn:///svc' are accepted as they are.
C16_Idempotent ==
  /\ (codecPc \in {"parsed", "done"} /\ IsOk(codecWire)) =>
       /\ Tag(Val(codecWire)) = "eid"
       /\ CanonicalForm(Text(Val(codecWire)))
  /\ codecPc = "done" => codecOut = codecWire
  /\ (codecPc \in {"parsed", "done"} /\ codecIn[1] = "parse"
      /\ codecIn[2] \in {<<"d", "t", "n", ":", "/", "/", "n", "o", "d", "e", "/">>,
                        <<"d", "t", "n", ":", "/", "/", "/", "s", "v", "c">>})
     => codecWire = Ok(PyEid(codecIn[2]))

\* C16 witness: the text dtn:///svc was parsed and parsed again.
C16_Witness ==
  /\ codecPc = "done"
  /\ codecIn = <<"parse", <<"d", "t", "n", ":", "/", "/", "/", "s", "v", "c">>>>
  /\ IsOk(codecOut)

\* The remainder of an ipn text is as the specification asks: no leading
\* //, two parts around one dot, both integers, node >= 1, service >= 0.
SpecIpnOk(rest) ==
  /\ ~startswith(rest, <<"/", "/">>)
  /\ Len(split(rest, ".")) = 2
  /\ IsOk(ParseInt(split(rest, ".")[1]))
  /\ IsOk(ParseInt(split(rest, ".")[2]))
  /\ ~BelowOne(ParseInt(split(rest, ".")[1])[2])
  /\ ~IsNegative(ParseInt(split(rest, ".")[2])[2])

\* The canonical text of the numbers in rest.
SpecIpnText(rest) ==
  IPN_PREFIX \o ParseInt(split(rest, ".")[1])[2] \o <<".">>
    \o ParseInt(split(rest, ".")[2])[2]

\* C17: EID of a text that starts with ipn: succeeds exactly when the
\* remainder is as the specification asks; it is then ipn:<node>.<service>
\* written from the two integers, which node() and service() return; every
\* other ipn text raises EIDError.
C17_Ipn ==
  (codecPc \in {"parsed", "done"} /\ codecIn[1] = "parse"
   /\ startswith(codecIn[2], IPN_PREFIX)) =>
    IF SpecIpnOk(Drop(codecIn[2], Len(IPN_PREFIX)))
    THEN /\ codecWire = Ok(PyEid(SpecIpnText(Drop(codecIn[2], Len(IPN_PREFIX)))))
         /\ codecPc = "done" =>
              codecCtor =
                <<Ok(PyStr(ParseInt(split(Drop(codecIn[2], Len(IPN_PREFIX)), ".")[1])[2])),
                  Ok(PyStr(ParseInt(split(Drop(codecIn[2], Len(IPN_PREFIX)), ".")[2])[2]))>>
    ELSE IsEIDError(codecWire)

\* C17 witness: ipn:01.0 was parsed to ipn:1.0, node 1 and service 0.
C17_Witness ==
  /\ codecPc = "done"
  /\ codecIn = <<"parse", <<"i", "p", "n", ":", "0", "1", ".", "0">>>>
  /\ codecWire = Ok(PyEid(ipn10))
  /\ codecCtor = <<Ok(PyStr(<<"1">>)), Ok(PyStr(<<"0">>))>>

\* dtnd's reply is complete and well-formed: the prefix announces the body
\* that follows it, and the body is a packed mapping.
WellFormedStream ==
  \E d \in ReplyDicts : stream = Framed(Len(Packed(d)), Packed(d))

\* C19 as stated: the call takes a length from nothing less than 8 received
\* bytes, and when dtnd writes a complete well-formed reply and keeps the
\* stream open, the call that has read decodes the N bytes of the body and
\* ends as the reply has it, in however many pieces the reply arrived.
C19_ExactFraming ==
  /\ (reads # <<>> /\ reads[1] # <<>>) => Len(reads[1]) = PrefixLen
  /\ (WellFormedStream /\ ~peerClosed /\ pc = "done" /\ reads # <<>>) =>
       /\ decoded = <<Drop(stream, PrefixLen)>>
       /\ outcome = HandleReply(call.op, Drop(stream, PrefixLen))

\* The exception of r is an error of the operating system's I/O.
IsIOError(r) ==
  /\ IsRaise(r)
  /\ Exc(r) \in {"OSError", "FileNotFoundError", "NotADirectoryError", "PermissionError",
                 "ConnectionRefusedError", "BrokenPipeError", "ConnectionResetError"}

\* The call ends, whether or not dtnd accepts the connections that wait.
EndsUnaided == <>(pc = "done")

RejectedBeforeIO ==
  /\ IsRaise(outcome)
  /\ Exc(outcome) \in {"InvalidMessageError", "MsgpackEncodeError"}
  /\ nsent = 0
  /\ reads = <<>>

RECURSIVE Joined(_)
Joined(bs) == IF bs = <<>> THEN <<>> ELSE Head(bs) \o Joined(Tail(bs))

\* What the call c writes when it runs alone: the prefix, then the request.
SoloWrites(c) ==
  <<to_bytes(U64(Len(Val(serialize(Val(BuildRequest(c))))[2]))),
    Val(serialize(Val(BuildRequest(c))))[2]>>

\* How the call c ends when it runs alone and dtnd replies the mapping d to
\* it: with the error d names, or else with the payload d holds.
SoloOutcome(c, d) ==
  IF Get(d[2], kError) # PyStr(<<>>)
  THEN Raise("DTNDError", <<"error", Get(d[2], kError)>>)
  ELSE IF c.op = "list_bundles"
  THEN Ok(Get(d[2], kBundles))
  ELSE IF c.op = "create_bundle"
  THEN Ok(Get(d[2], kBundleID))
  ELSE Ok(PyNone)

\* The call held in f has its own socket; on its connection are the bytes of
\* its own request and no others; what it has read and has yet to read is
\* the reply dtnd gave on that connection; and if it is over, it ended as it
\* ends alone with that reply, or with the error of its own connection.
OwnConnection(f) ==
  /\ f.opened <= 1
  /\ f.sock = 0 <=> f.opened = 0
  /\ f.sock # 0 =>
       /\ f.sock \in DOMAIN conns
       /\ conns[f.sock].open <=> f.pc # "done"
       /\ conns[f.sock].sent =
            SubSeq(to_bytes(U64(Len(f.message_bytes))) \o f.message_bytes, 1, f.nsent)
       /\ IF conns[f.sock].answer = PyNone
          THEN /\ conns[f.sock].inbuf = <<>>
               /\ Joined(f.reads) = <<>>
          ELSE /\ f.nsent = PrefixLen + Len(f.message_bytes)
               /\ Joined(f.reads) \o conns[f.sock].inbuf =
                    Framed(Len(Packed(conns[f.sock].answer)), Packed(conns[f.sock].answer))
  /\ f.pc = "done" =>
       IF Len(f.reads) = 2
       THEN f.outcome = SoloOutcome(f.call, conns[f.sock].answer)
       ELSE /\ IsRaise(f.outcome)
            /\ IF f.reads = <<>> THEN IsIOError(f.outcome)
               ELSE /\ f.reads = << <<>> >>
                    /\ conns[f.sock].peerClosed
                    /\ f.outcome = Raise("DataError",
                                         <<"Received nonsensical data-length", U64Zero>>)

\* The two calls hold different sockets, and every socket is held by one.
OwnSockets ==
  /\ (sock # 0 /\ other.sock # 0) => sock # other.sock
  /\ Len(conns) = opened + other.opened

\* A step is of the scheduler, which changes nothing but which call runs,
\* or leaves the other call as it is. A step of the call that runs changes
\* no socket but its own, and the request it packs is the one it packs
\* alone; a reply dtnd gives on a connection is a reply to the request of
\* the call that holds it.
OwnStep ==
  IF other' # other
  THEN other' = Frame /\ UNCHANGED <<peerVars, stream>>
  ELSE /\ (<<pc, nsent>>' # <<pc, nsent>>) =>
            /\ call' = call
            /\ \A i \in DOMAIN conns : i # sock' => conns'[i] = conns[i]
       /\ message_bytes' # message_bytes => message_bytes' = SoloWrites(call)[2]
       /\ \A i \in DOMAIN conns :
            conns'[i].answer # conns[i].answer =>
              \E f \in {Frame, other} :
                /\ f.sock = i
                /\ conns'[i].answer \in RepliesTo(Val(unpackb(SoloWrites(f.call)[2])))

ClosedBeforeReply == Len(writes) = 2 /\ peerClosed /\ delivered = 0

\* C21 as stated: when dtnd closes the connection after the request was
\* written and before it sends a byte, the call waits at recv(8) or has
\* ended; it ends, with DataError for a length of 0 read from the empty
\* bytes, and nothing was passed to deserialize.
C21_AsStated ==
  /\ [](ClosedBeforeReply =>
          /\ pc \in {"recvlen", "done"}
          /\ decoded = <<>>
          /\ pc = "done" =>
               /\ reads = << <<>> >>
               /\ reply_length = U64Zero
               /\ outcome = Raise("DataError", <<"Received nonsensical data-length", U64Zero>>))
  /\ (ClosedBeforeReply ~> pc = "done")

\* C21: when dtnd closes the connection after the request was written and
\* before it sends a byte, the call waits at recv(8) or has ended, and it
\* ends; nothing was passed to deserialize. If dtnd had read the whole
\* request, recv returns the empty bytes and the call raises DataError for a
\* length of 0; if dtnd left bytes of the request unread, or never accepted
\* the connection, recv raises ConnectionResetError.
C21_ClosedBeforeReply ==
  /\ [](ClosedBeforeReply =>
          /\ pc \in {"recvlen", "done"}
          /\ decoded = <<>>
          /\ pc = "done" =>
               IF conns[sock].reset
               THEN /\ reads = <<>>
                    /\ outcome = Raise("ConnectionResetError", <<"recv">>)
               ELSE /\ conns[sock].unread = 0
                    /\ reads = << <<>> >>
                    /\ reply_length = U64Zero
                    /\ outcome = Raise("DataError",
                                       <<"Received nonsensical data-length", U64Zero>>))
  /\ (ClosedBeforeReply ~> pc = "done")

\* C21 witness: dtnd accepted the connection, left bytes of the request
\* unread and closed; the call ended with ConnectionResetError and read
\* nothing.
C21_Witness ==
  /\ ClosedBeforeReply
  /\ pc = "done"
  /\ conns[sock].accepted
  /\ conns[sock].unread > 0
  /\ reads = <<>>
  /\ pending = stream
  /\ outcome = Raise("ConnectionResetError", <<"recv">>)

\* C22: MESSAGE_CONSTRUCTORS has an entry for each of the MessageType values
\* 1..11, so that deserialize never raises "No constructor defined"; a
\* message deserialize returns has the Type the mapping on the wire has and
\* is of the class the table names for it.
C22_TableComplete ==
  /\ \A t \in MessageTypeValues : MESSAGE_CONSTRUCTORS(t) \in Variants
  /\ MessageTypeValues = 1..11
  /\ (codecPc = "done" /\ codecIn[1] \in {"wire", "bytes", "message"}) =>
       /\ codecOut # Raise("InvalidMessageError", <<"No constructor defined">>)
       /\ IsOk(codecOut) =>
            /\ Tag(Val(unpackb(Val(codecWire)[2]))) = "dict"
            /\ Attr(Val(codecOut), kType) = Get(Val(unpackb(Val(codecWire)[2]))[2], kType)
            /\ IntOf(Attr(Val(codecOut), kType)) \in MessageTypeValues
            /\ ClassOf(Val(codecOut)) = SpecVariant(IntOf(Attr(Val(codecOut), kType)))
            /\ codecCtor = ClassOf(Val(codecOut))

\* C22 witness: deserialize returned a RegisterUnregister for a mapping of
\* Type 3.
C22_Witness ==
  /\ codecPc = "done"
  /\ codecIn[1] = "wire"
  /\ HasKey(codecIn[2][2], kType)
  /\ Get(codecIn[2][2], kType) = PyInt(MT_UnregisterEID)
  /\ IsOk(codecOut)
  /\ ClassOf(Val(codecOut)) = "RegisterUnregister"
  /\ Attr(Val(codecOut), kType) = PyInt(3)

\* C23 as stated: when deserialize fails on the bytes of a reply (bytes
\* that are no MessagePack, a mapping without Type or with an unknown one,
\* a variant whose checks fail), the diagnostic store holds exactly those
\* bytes, for the error the call raises to refer to.
C23_BytesPreserved ==
  (pc = "done" /\ decoded # <<>> /\ IsRaise(DecodedReply)) =>
    /\ IsRaise(outcome)
    /\ diagnostics = {decoded[1]}

====
